---- MODULE Spec2Model ----
(***************************************************************************)
(* Model of the search orchestrator of job_search                          *)
(* (src/job_scraper/manager.py), the adapters' calling convention          *)
(* (src/job_scraper/sources/*.py), Job ids (src/job_scraper/models.py) and *)
(* JobStorage.save_jobs (src/job_scraper/storage.py).                      *)
(*                                                                         *)
(* Threads: the API thread (start_search, cancel_search), the orchestrator *)
(* thread (_run_search) and the pool threads (_fetch_from_source, one per  *)
(* active source, at most MaxWorkers at a time).  Every step is one access *)
(* to shared state; `x += e` is a read followed by a write, because the    *)
(* interpreter may switch threads between the two.                         *)
(***************************************************************************)
EXTENDS Integers, Sequences, FiniteSets, TLC

\* ---------------------------------------------------------------- bounds
MaxBatches == 1      \* on_batch deliveries one adapter call makes at most
MaxCancels == 1      \* cancel_search calls made during one run
MaxSaves == 2        \* save_jobs calls one caller makes
MaxPromptCalls == 1  \* ai_prompts calls one caller makes
MaxUpserts == 3      \* save_ai_analysis calls in a row
MaxClock == 2        \* seconds the database clock advances
MaxRequests == 2     \* POST /api/ai-analyse requests served

\* ------------------------------------------------------- program constants
MaxWorkers == 4      \* ThreadPoolExecutor(max_workers=4)

\* The registry, in insertion order (dict order is the iteration order).
ALL_SOURCES ==
  << "RemoteOK", "Arbeitnow", "The Muse", "Jobicy", "Remotive",
     "WeWorkRemotely", "WorkingNomads", "Lobsters", "Greenhouse", "Lever",
     "Ashby", "Workable", "JobsCollider", "DevITjobs", "HN Who is hiring",
     "Totaljobs", "Remote.co", "GOV.UK Find a Job", "JobSpy", "LinkedIn",
     "LinkedIn (Direct)", "Adzuna", "Reed", "USAJobs", "Jooble",
     "Google Jobs", "Findwork", "CareerJet", "JobData" >>

Range(f) == { f[i] : i \in DOMAIN f }

\* Adapters whose fetch_jobs signature ends in **kwargs.  The others take
\* exactly the eight named parameters (Adzuna and JobSpy add `country` /
\* `sites`), so a call with on_batch=... raises TypeError.
AcceptsKwargs ==
  { "Arbeitnow", "Ashby", "CareerJet", "DevITjobs", "HN Who is hiring",
    "JobData", "Jobicy", "JobsCollider", "Jooble", "Lever", "LinkedIn",
    "LinkedIn (Direct)", "Reed", "Remotive", "Workable", "WorkingNomads" }

\* Adapters that read kwargs.get("on_batch") and call it per board / page.
EmitsBatches ==
  { "Ashby", "DevITjobs", "JobsCollider", "Lever", "LinkedIn (Direct)",
    "Workable" }

\* Adapters whose is_available() is overridden to look at the configuration
\* or at an optional import; all others inherit BaseSource.is_available.
Conditional ==
  { "Adzuna", "CareerJet", "Findwork", "Google Jobs", "Jooble", "JobSpy",
    "LinkedIn", "LinkedIn (Direct)", "Reed", "USAJobs" }

is_available(name, cfg) == name \notin Conditional \/ name \in cfg

\* --------------------------------------------------------------- inputs
\* The `sources` argument of start_search.
Requests ==
  { << "Lever", "Remotive", "RemoteOK" >>,
    << "Lever", "Ashby" >>,
    << "Remotive", "Arbeitnow" >>,
    << "Reed" >>,
    << "LinkedIn", "JobSpy" >> }

Pool == UNION { Range(r) : r \in Requests }

\* What one provider page / board / feed converts to: a list of job URLs.
Lists == { <<>>, << "u1" >>, << "u1", "u1" >> }

\* Requests for the pool-level view (PoolSpec): none requested, a repeated
\* name, an unregistered name, an empty name, LinkedIn with and without
\* JobSpy, and more sources than the pool has threads.
PoolRequests ==
  { << >>,
    << "Remotive", "Lever", "Remotive" >>,
    << "Nope", "Arbeitnow", "" >>,
    << "LinkedIn", "JobSpy", "Reed" >>,
    << "Reed", "LinkedIn", "Jobicy" >>,
    << "RemoteOK", "Arbeitnow", "The Muse", "Jobicy", "Remotive", "Lever" >> }

\* Configurations for PoolSpec: the conditional adapters that are available.
PoolConfigs == { {}, { "Reed" }, { "LinkedIn" }, { "JobSpy", "LinkedIn" } }

\* Arguments of a Job(...) call: the named fields, job_id "" when not given.
JobArgs ==
  [ source : { "A", "B" }, url : { "", "u", "v" }, title : { "t", "t2" },
    company : { "c", "c2" }, description : { <<>>, << " ", "d" >> },
    job_id : { "", "mine" } ]

\* Concurrent callers of one storage method (pool threads, request threads).
Callers == { 1, 2 }

\* ai_prompts before the calls: rows 1 and 2 or fewer, at most one active.
PromptRow(id, title, is_active) ==
  [ id |-> id, title |-> title, is_active |-> is_active ]

PromptTables ==
  { t \in SUBSET { PromptRow(id, "a", act) : id \in 1..2, act \in 0..1 } :
       /\ \A r1 \in t : \A r2 \in t : r1.id = r2.id => r1 = r2
       /\ Cardinality({ r \in t : r.is_active = 1 }) <= 1 }

PromptIds == 1..3            \* ids a request names; 3 is not in the table
Titles == { "a", "b" }

\* job_ids and notes the triage endpoints are called with.
TriageJobs == { "j1", "j2" }
Notes == { "", "n" }

\* Arguments of save_ai_analysis: three (job, prompt) pairs, two models with
\* their results.
AnalysisPairs == { << "j1", 1 >>, << "j1", 2 >>, << "j2", 1 >> }
AnalysisModels == { "llama3", "owui:gpt-4o" }

TaskIds == { "t1", "zz" }    \* "t1" is the id start_search hands out

\* ------------------------------------------------------------ Job record
\* hashlib.md5(raw.encode()).hexdigest(): taken to be collision-free, the
\* digest is written as the text it was computed from.
md5_hexdigest(raw) == "md5:" \o raw

_generate_id_url_only(source, url, title, company) ==
  IF url # "" THEN md5_hexdigest(url)
  ELSE md5_hexdigest(title \o "|" \o company)

_generate_id_with_title(source, url, title, company) ==
  md5_hexdigest(source \o "|" \o url \o "|" \o title)

\* Job._generate_id: md5 of f"{source}|{url}", or of
\* f"{source}|{title}|{company}" when url is empty.
_generate_id(source, url, title, company) ==
  IF url # "" THEN md5_hexdigest(source \o "|" \o url)
  ELSE md5_hexdigest(source \o "|" \o title \o "|" \o company)

\* str.strip() on a text given as a sequence of characters.
RECURSIVE lstrip(_)
lstrip(t) == IF t # <<>> /\ Head(t) = " " THEN lstrip(Tail(t)) ELSE t

RECURSIVE rstrip(_)
rstrip(t) ==
  IF t # <<>> /\ t[Len(t)] = " " THEN rstrip(SubSeq(t, 1, Len(t) - 1)) ELSE t

strip(t) == rstrip(lstrip(t))

\* Job.__post_init__: fill job_id when it is empty, trim the description.
__post_init__(self) ==
  [ self EXCEPT !.job_id = IF @ = "" THEN _generate_id(self.source, self.url,
                                                       self.title, self.company)
                           ELSE @,
                !.description = strip(@) ]

\* Job(...) as the adapters call it: no job_id, date_scraped left to default.
Job(source, url, title, company) ==
  __post_init__([ source |-> source, url |-> url, title |-> title,
              company |-> company, description |-> <<>>, job_id |-> "" ])

\* The records an adapter builds from a list of URLs (source=self.name).
JobsOf(name, urls) == [ i \in DOMAIN urls |-> Job(name, urls[i], "t", "c") ]

\* Records handed to save_jobs: the same posting scraped at two times with
\* changed title, and another posting.
SavedJob(url, title, date) ==
  [ job_id |-> Job("A", url, title, "c").job_id, title |-> title,
    date_scraped |-> date ]

Batches ==
  { << >>,
    << SavedJob("u", "t", 1) >>,
    << SavedJob("u", "t2", 2), SavedJob("v", "t", 2) >>,
    << SavedJob("v", "t", 1), SavedJob("v", "t2", 2) >> }

\* ---------------------------------------------------------------- storage
\* JobStorage.save_jobs: one INSERT IGNORE per row, rowcount summed.
RECURSIVE InsertIgnore(_, _, _)
InsertIgnore(tbl, rows, saved) ==
  IF rows = <<>> THEN [ jobs |-> tbl, saved |-> saved ]
  ELSE InsertIgnore(tbl \cup { Head(rows) }, Tail(rows),
                    saved + (IF Head(rows) \in tbl THEN 0 ELSE 1))

save_jobs(tbl, jobs) ==
  IF jobs = <<>> THEN [ jobs |-> tbl, saved |-> 0 ]
  ELSE InsertIgnore(tbl, [ i \in DOMAIN jobs |-> jobs[i].job_id ], 0)

\* REPLACE INTO: the new row takes the place of the one holding its key.
insert_replace(tbl, row) ==
  [ tbl |-> { r \in tbl : r.job_id # row.job_id } \cup { row }, rowcount |-> 1 ]

\* One `INSERT IGNORE INTO jobs ...` statement (autocommit): the row is added
\* unless a row holds its job_id already; rowcount is 1 or 0 accordingly.
insert_ignore(tbl, row) ==
  IF \E r \in tbl : r.job_id = row.job_id
  THEN [ tbl |-> tbl, rowcount |-> 0 ]
  ELSE [ tbl |-> tbl \cup { row }, rowcount |-> 1 ]

\* favourites, applications and not_interested hold one row per job_id.
SidebandKey(row) == row.job_id

\* INSERT IGNORE INTO <table> ...: the row is added unless its key is taken.
SidebandInsertIgnore(tbl, row) ==
  IF \E r \in tbl : SidebandKey(r) = SidebandKey(row)
  THEN [ tbl |-> tbl, rowcount |-> 0 ]
  ELSE [ tbl |-> tbl \cup { row }, rowcount |-> 1 ]

SidebandDelete_counts_statement(tbl, job_id) ==
  [ tbl |-> { r \in tbl : r.job_id # job_id }, rowcount |-> 1 ]

\* DELETE FROM <table> WHERE job_id = %s; rowcount is the rows deleted.
SidebandDelete(tbl, job_id) ==
  [ tbl |-> { r \in tbl : r.job_id # job_id },
    rowcount |-> Cardinality({ r \in tbl : r.job_id = job_id }) ]

\* UPDATE ai_prompts SET <assignment> WHERE <condition>, one autocommitted
\* statement; rowcount is the number of rows the statement changed.
UpdatePrompts(tbl, where(_), set(_)) ==
  [ tbl |-> { IF where(r) THEN set(r) ELSE r : r \in tbl },
    rowcount |-> Cardinality({ r \in tbl : where(r) /\ set(r) # r }) ]

\* ------------------------------------------------------------------ JSON
\* Text is a sequence of tokens; a string literal is one token holding its
\* characters.
P(c) == [ t |-> "punct", v |-> c ]
WS == [ t |-> "ws", v |-> " " ]
Word(w) == [ t |-> "word", v |-> w ]
Str(chars) == [ t |-> "str", v |-> chars ]
Num(n) == [ t |-> "num", v |-> n ]

IsP(tok, c) == tok.t = "punct" /\ tok.v = c

\* Python values.
PyNone == [ kind |-> "NoneType" ]
PyBool(b) == [ kind |-> "bool", v |-> b ]
PyInt(n) == [ kind |-> "int", v |-> n ]
PyStr(chars) == [ kind |-> "str", v |-> chars ]
PyList(elems) == [ kind |-> "list", v |-> elems ]
PyDict(items) == [ kind |-> "dict", v |-> items ]   \* << <<key, value>>, ... >>

RECURSIVE json_dumps(_)
RECURSIVE DumpElems(_)
RECURSIVE DumpItems(_)
DumpElems(elems) ==
  IF elems = <<>> THEN <<>>
  ELSE json_dumps(Head(elems)) \o
       (IF Tail(elems) = <<>> THEN <<>> ELSE << P(","), WS >> \o DumpElems(Tail(elems)))

DumpItems(items) ==
  IF items = <<>> THEN <<>>
  ELSE << Str(Head(items)[1]), P(":"), WS >> \o json_dumps(Head(items)[2]) \o
       (IF Tail(items) = <<>> THEN <<>> ELSE << P(","), WS >> \o DumpItems(Tail(items)))

\* json.dumps(value)
json_dumps(val) ==
  CASE val.kind = "NoneType" -> << Word("null") >>
    [] val.kind = "bool" -> << Word(IF val.v THEN "true" ELSE "false") >>
    [] val.kind = "int" -> << Num(val.v) >>
    [] val.kind = "str" -> << Str(val.v) >>
    [] val.kind = "list" -> << P("[") >> \o DumpElems(val.v) \o << P("]") >>
    [] val.kind = "dict" -> << P("{") >> \o DumpItems(val.v) \o << P("}") >>

\* dict[key] = value: replace in place, or append.
RECURSIVE DictSet(_, _, _)
DictSet(items, key, value) ==
  IF items = <<>> THEN << << key, value >> >>
  ELSE IF Head(items)[1] = key THEN << << key, value >> >> \o Tail(items)
  ELSE << Head(items) >> \o DictSet(Tail(items), key, value)

DictHas(items, key) == \E i \in DOMAIN items : items[i][1] = key
DictGet(items, key) == items[CHOOSE i \in DOMAIN items : items[i][1] = key][2]

NoWs(toks) == SelectSeq(toks, LAMBDA tok : tok.t # "ws")

ParseFail == [ ok |-> FALSE, value |-> PyNone, rest |-> <<>> ]
Parsed(value, rest) == [ ok |-> TRUE, value |-> value, rest |-> rest ]

RECURSIVE ParseValue(_)
RECURSIVE ParseElems(_, _)
RECURSIVE ParseItems(_, _)
\* The elements of an array, after "[" or ",".
ParseElems(toks, acc) ==
  LET e == ParseValue(toks) IN
    IF ~e.ok \/ e.rest = <<>> THEN ParseFail
    ELSE IF IsP(Head(e.rest), "]")
         THEN Parsed(PyList(Append(acc, e.value)), Tail(e.rest))
    ELSE IF IsP(Head(e.rest), ",")
         THEN ParseElems(Tail(e.rest), Append(acc, e.value))
    ELSE ParseFail

\* The members of an object, after "{" or ",".
ParseItems(toks, acc) ==
  IF Len(toks) < 3 \/ toks[1].t # "str" \/ ~IsP(toks[2], ":") THEN ParseFail
  ELSE LET e == ParseValue(SubSeq(toks, 3, Len(toks))) IN
    IF ~e.ok \/ e.rest = <<>> THEN ParseFail
    ELSE IF IsP(Head(e.rest), "}")
         THEN Parsed(PyDict(DictSet(acc, toks[1].v, e.value)), Tail(e.rest))
    ELSE IF IsP(Head(e.rest), ",")
         THEN ParseItems(Tail(e.rest), DictSet(acc, toks[1].v, e.value))
    ELSE ParseFail

\* One JSON value at the head of the tokens.
ParseValue(toks) ==
  IF toks = <<>> THEN ParseFail
  ELSE LET tok == Head(toks) rest == Tail(toks) IN
    CASE tok.t = "num" -> Parsed(PyInt(tok.v), rest)
      [] tok.t = "str" -> Parsed(PyStr(tok.v), rest)
      [] tok.t = "word" ->
           IF tok.v = "null" THEN Parsed(PyNone, rest)
           ELSE IF tok.v = "true" THEN Parsed(PyBool(TRUE), rest)
           ELSE IF tok.v = "false" THEN Parsed(PyBool(FALSE), rest)
           ELSE ParseFail
      [] tok.t = "punct" ->
           IF tok.v = "[" THEN
              IF rest # <<>> /\ IsP(Head(rest), "]")
              THEN Parsed(PyList(<<>>), Tail(rest))
              ELSE ParseElems(rest, <<>>)
           ELSE IF tok.v = "{" THEN
              IF rest # <<>> /\ IsP(Head(rest), "}")
              THEN Parsed(PyDict(<<>>), Tail(rest))
              ELSE ParseItems(rest, <<>>)
           ELSE ParseFail
      [] OTHER -> ParseFail

\* json.loads(text): the value, or JSONDecodeError (ok = FALSE).
json_loads(text) ==
  LET r == ParseValue(NoWs(text)) IN
    IF r.ok /\ r.rest = <<>> THEN [ ok |-> TRUE, value |-> r.value ]
    ELSE [ ok |-> FALSE, value |-> PyNone ]

\* ------------------------------------------------------------ ai_analyses
\* ai_analyses holds one row per (job_id, prompt_id).
AnalysisKey(row) == << row.job_id, row.prompt_id >>

\* created_at of a newly inserted row: the column default, the current time.
InsertedCreatedAt(time) == time

save_ai_analysis_keeps_first(tbl, auto_increment, time, job_id, prompt_id, model, result) ==
  LET key == << job_id, prompt_id >>
      hit == { r \in tbl : AnalysisKey(r) = key }
      tbl2 == IF hit # {} THEN tbl
              ELSE tbl \cup { [ id |-> auto_increment, job_id |-> job_id,
                                prompt_id |-> prompt_id, model |-> model,
                                result |-> json_dumps(result),
                                created_at |-> InsertedCreatedAt(time) ] }
      found == { r \in tbl2 : r.job_id = job_id /\ r.prompt_id = prompt_id }
  IN  [ tbl |-> tbl2, auto_increment |-> auto_increment + 1,
        analysis_id |-> IF found = {} THEN 0 ELSE (CHOOSE r \in found : TRUE).id ]

\* JobStorage.save_ai_analysis: INSERT ... ON DUPLICATE KEY UPDATE model,
\* result, created_at = NOW(), then SELECT id of the pair's row (0 when none).
\* The statement takes an AUTO_INCREMENT value whether it inserts or updates.
save_ai_analysis(tbl, auto_increment, time, job_id, prompt_id, model, result) ==
  LET key == << job_id, prompt_id >>
      hit == { r \in tbl : AnalysisKey(r) = key }
      tbl2 == IF hit # {}
              THEN { IF r \in hit
                     THEN [ r EXCEPT !.model = model,
                                     !.result = json_dumps(result),
                                     !.created_at = time ]
                     ELSE r : r \in tbl }
              ELSE tbl \cup { [ id |-> auto_increment, job_id |-> job_id,
                                prompt_id |-> prompt_id, model |-> model,
                                result |-> json_dumps(result),
                                created_at |-> InsertedCreatedAt(time) ] }
      found == { r \in tbl2 : r.job_id = job_id /\ r.prompt_id = prompt_id }
  IN  [ tbl |-> tbl2, auto_increment |-> auto_increment + 1,
        analysis_id |-> IF found = {} THEN 0 ELSE (CHOOSE r \in found : TRUE).id ]

\* ------------------------------------------------------- analysis replies
\* str.strip() of a text of tokens: whitespace tokens at both ends go.
RECURSIVE lstrip_text(_)
lstrip_text(text) ==
  IF text # <<>> /\ Head(text).t = "ws" THEN lstrip_text(Tail(text)) ELSE text

RECURSIVE rstrip_text(_)
rstrip_text(text) ==
  IF text # <<>> /\ text[Len(text)].t = "ws"
  THEN rstrip_text(SubSeq(text, 1, Len(text) - 1)) ELSE text

strip_text(text) == rstrip_text(lstrip_text(text))

\* The three backquotes of a Markdown code fence, as one token.
Fence == [ t |-> "fence", v |-> "" ]

Positions(text, tok) ==
  { i \in DOMAIN text : text[i].t = tok.t /\ text[i].v = tok.v }
Min(S) == CHOOSE x \in S : \A y \in S : x <= y
Max(S) == CHOOSE x \in S : \A y \in S : x >= y

NotJson == [ ok |-> FALSE, value |-> PyNone ]

\* Strategy 2, the re.search for a fenced block (lines 114-120): the text
\* between the first fence and the next one, without a leading `json` tag and
\* the whitespace around it.  When nothing is left between the two fences
\* the pattern matches, if at all, a group that is no JSON text.
Fenced(text) ==
  LET fences == Positions(text, Fence) IN
    IF Cardinality(fences) < 2 THEN NotJson
    ELSE LET i == Min(fences)
             j == Min(fences \ { i })
             between == SubSeq(text, i + 1, j - 1)
             untagged == IF between # <<>> /\ Head(between).t = "word"
                            /\ Head(between).v = "json"
                         THEN Tail(between) ELSE between
             group == strip_text(untagged)
         IN  IF group = <<>> THEN NotJson ELSE json_loads(group)

\* Strategy 3: from the first "{" to the last "}".
Braced(text) ==
  LET open == Positions(text, P("{"))
      close == Positions(text, P("}"))
  IN  IF open # {} /\ close # {} /\ Max(close) > Min(open)
      THEN json_loads(SubSeq(text, Min(open), Max(close)))
      ELSE NotJson

_extract_json_skips_fence(raw) ==
  LET text == strip_text(raw) IN
    IF json_loads(text).ok THEN json_loads(text)
    ELSE IF Braced(text).ok THEN Braced(text)
    ELSE NotJson

\* _extract_json: the first strategy that parses; ok = FALSE is ValueError.
_extract_json(raw) ==
  LET text == strip_text(raw) IN
    IF json_loads(text).ok THEN json_loads(text)
    ELSE IF Fenced(text).ok THEN Fenced(text)
    ELSE IF Braced(text).ok THEN Braced(text)
    ELSE NotJson

\* prompts.ANALYSIS_REQUIRED_FIELDS, in dict order.
ANALYSIS_REQUIRED ==
  << << "keywords", "list" >>, << "key_skills", "list" >>,
     << "job_description", "str" >>, << "key_responsibilities", "list" >>,
     << "match_score", "None" >>, << "score_reasoning", "str" >>,
     << "skills_we_have", "list" >>, << "skills_we_are_missing", "list" >>,
     << "cover_letter_talking_points", "list" >>, << "red_flags", "list" >>,
     << "interview_prep_topics", "list" >>, << "application_tips", "str" >>,
     << "company_type", "str" >>, << "company_size_estimate", "str" >>,
     << "company_highlights", "list" >>, << "recommendation", "str" >>,
     << "recommendation_notes", "str" >> >>

Chars(word) ==
  CASE word = "apply" -> << "a", "p", "p", "l", "y" >>
    [] word = "maybe" -> << "m", "a", "y", "b", "e" >>
    [] word = "skip" -> << "s", "k", "i", "p" >>

VALID_RECOMMENDATIONS == { Chars("apply"), Chars("maybe"), Chars("skip") }

\* A field name as the characters of a dict key (kept in one piece).
Key(field) == << field >>

\* str.lower(), character by character.
LowerChar(c) ==
  CASE c = "A" -> "a" [] c = "B" -> "b" [] c = "C" -> "c" [] c = "D" -> "d"
    [] c = "E" -> "e" [] c = "F" -> "f" [] c = "G" -> "g" [] c = "H" -> "h"
    [] c = "I" -> "i" [] c = "J" -> "j" [] c = "K" -> "k" [] c = "L" -> "l"
    [] c = "M" -> "m" [] c = "N" -> "n" [] c = "O" -> "o" [] c = "P" -> "p"
    [] c = "Q" -> "q" [] c = "R" -> "r" [] c = "S" -> "s" [] c = "T" -> "t"
    [] c = "U" -> "u" [] c = "V" -> "v" [] c = "W" -> "w" [] c = "X" -> "x"
    [] c = "Y" -> "y" [] c = "Z" -> "z" [] OTHER -> c

lower(chars) == [ i \in DOMAIN chars |-> LowerChar(chars[i]) ]

Digits == { "0", "1", "2", "3", "4", "5", "6", "7", "8", "9" }
DigitValue(c) == CHOOSE n \in 0..9 : ToString(n) = c

RECURSIVE DecimalValue(_, _)
DecimalValue(chars, acc) ==
  IF chars = <<>> THEN acc
  ELSE DecimalValue(Tail(chars), 10 * acc + DigitValue(Head(chars)))

\* int(val): ok = FALSE is TypeError or ValueError.
int(val) ==
  CASE val.kind = "int" -> [ ok |-> TRUE, value |-> val.v ]
    [] val.kind = "bool" -> [ ok |-> TRUE, value |-> IF val.v THEN 1 ELSE 0 ]
    [] val.kind = "str" ->
         LET s == strip(val.v) IN
           IF s # <<>> /\ \A i \in DOMAIN s : s[i] \in Digits
           THEN [ ok |-> TRUE, value |-> DecimalValue(s, 0) ]
           ELSE [ ok |-> FALSE, value |-> 0 ]
    [] OTHER -> [ ok |-> FALSE, value |-> 0 ]

\* str(val): the text itself, or a rendering that is no recommendation.
str(val) == IF val.kind = "str" THEN val.v ELSE << "<", val.kind, ">" >>

\* `field in data` for the values json.loads can return; on an int, None or
\* bool the test raises TypeError.
Contains(data, field) ==
  CASE data.kind = "dict" -> DictHas(data.v, Key(field))
    [] data.kind = "list" ->
         \E i \in DOMAIN data.v :
            data.v[i].kind = "str" /\ data.v[i].v = Key(field)
    [] data.kind = "str" ->
         \E i \in DOMAIN data.v : SubSeq(data.v, i, i) = Key(field)
    [] OTHER -> FALSE

Iterable(data) == data.kind \in { "dict", "list", "str" }

CheckField_any_score(data, errors, field, expected) ==
  IF ~Contains(data, field)
  THEN [ data |-> data, errors |-> Append(errors, << "missing field", field >>) ]
  ELSE LET val == DictGet(data.v, Key(field)) IN
    IF expected = "str" THEN
       IF val.kind # "str" \/ strip(val.v) = <<>>
       THEN [ data |-> data,
              errors |-> Append(errors, << "must be a non-empty string", field >>) ]
       ELSE [ data |-> data, errors |-> errors ]
    ELSE IF expected = "list" THEN
       IF val.kind # "list"
       THEN [ data |-> data,
              errors |-> Append(errors, << "must be an array", field >>) ]
       ELSE [ data |-> data, errors |-> errors ]
    ELSE IF field = "match_score" THEN
       IF ~int(val).ok
       THEN [ data |-> data,
              errors |-> Append(errors, << "must be a number", field >>) ]
       ELSE [ data |-> PyDict(DictSet(data.v, Key(field), PyInt(int(val).value))),
              errors |-> errors ]
    ELSE [ data |-> data, errors |-> errors ]

\* One pass of the loop of _validate_analysis (lines 143-163).
CheckField(data, errors, field, expected) ==
  IF ~Contains(data, field)
  THEN [ data |-> data, errors |-> Append(errors, << "missing field", field >>) ]
  ELSE LET val == DictGet(data.v, Key(field)) IN
    IF expected = "str" THEN
       IF val.kind # "str" \/ strip(val.v) = <<>>
       THEN [ data |-> data,
              errors |-> Append(errors, << "must be a non-empty string", field >>) ]
       ELSE [ data |-> data, errors |-> errors ]
    ELSE IF expected = "list" THEN
       IF val.kind # "list"
       THEN [ data |-> data,
              errors |-> Append(errors, << "must be an array", field >>) ]
       ELSE [ data |-> data, errors |-> errors ]
    ELSE IF field = "match_score" THEN
       IF ~int(val).ok
       THEN [ data |-> data,
              errors |-> Append(errors, << "must be a number", field >>) ]
       ELSE IF ~(1 <= int(val).value /\ int(val).value <= 10)
       THEN [ data |-> data,
              errors |-> Append(errors, << "must be 1-10", field >>) ]
       ELSE [ data |-> PyDict(DictSet(data.v, Key(field), PyInt(int(val).value))),
              errors |-> errors ]
    ELSE [ data |-> data, errors |-> errors ]

RECURSIVE CheckFields(_, _, _)
CheckFields(data, errors, fields) ==
  IF fields = <<>> THEN [ data |-> data, errors |-> errors ]
  ELSE LET r == CheckField(data, errors, Head(fields)[1], Head(fields)[2])
       IN  CheckFields(r.data, r.errors, Tail(fields))

\* Lines 165-172: the recommendation, trimmed and lower-cased.
CheckRecommendation(data, errors) ==
  IF ~Contains(data, "recommendation") THEN [ data |-> data, errors |-> errors ]
  ELSE LET rec == lower(strip(str(DictGet(data.v, Key("recommendation"))))) IN
    IF rec \notin VALID_RECOMMENDATIONS
    THEN [ data |-> data,
           errors |-> Append(errors, << "must be one of", "recommendation" >>) ]
    ELSE [ data |-> PyDict(DictSet(data.v, Key("recommendation"), PyStr(rec))),
           errors |-> errors ]

\* _validate_analysis(data): the violations and the data as normalised in
\* place; raised = TRUE is the TypeError of indexing or searching a value
\* that is no dict.
_validate_analysis(data) ==
  IF ~Iterable(data)
     \/ (data.kind # "dict"
          /\ \E i \in DOMAIN ANALYSIS_REQUIRED : Contains(data, ANALYSIS_REQUIRED[i][1]))
  THEN [ raised |-> TRUE, errors |-> <<>>, data |-> data ]
  ELSE LET r == CheckFields(data, <<>>, ANALYSIS_REQUIRED)
           q == CheckRecommendation(r.data, r.errors)
       IN  [ raised |-> FALSE, errors |-> q.errors, data |-> q.data ]

Respond_skips_validation(raw) ==
  LET e == _extract_json(raw) IN
    IF ~e.ok THEN [ code |-> 422, data |-> PyNone ]
    ELSE LET v == _validate_analysis(e.value) IN
      IF v.raised THEN [ code |-> 500, data |-> PyNone ]
      ELSE [ code |-> 200, data |-> v.data ]

\* api_ai_analyse lines 1366-1386: what the raw reply leads to; 500 is the
\* exception no handler catches.
Respond(raw) ==
  LET e == _extract_json(raw) IN
    IF ~e.ok THEN [ code |-> 422, data |-> PyNone ]
    ELSE LET v == _validate_analysis(e.value) IN
      IF v.raised THEN [ code |-> 500, data |-> PyNone ]
      ELSE IF v.errors # <<>> THEN [ code |-> 422, data |-> PyNone ]
      ELSE [ code |-> 200, data |-> v.data ]

\* What POST /api/ai-analyse is sent: job ids as characters, prompt ids as
\* JSON values.
RequestJobIds == { <<>>, << " " >>, << "j1", " " >>, << "nope" >> }
RequestPromptIds ==
  << PyNone, PyInt(0), PyInt(1), PyInt(3), PyStr(<< "1" >>), PyStr(<< "x" >>) >>

\* A reply with every required field, before normalisation.
SampleValue(field, expected) ==
  CASE field = "match_score" -> PyInt(7)
    [] field = "recommendation" -> PyStr(<< "A", "P", "P", "L", "Y", " " >>)
    [] expected = "list" -> PyList(<< PyStr(<< "x" >>) >>)
    [] OTHER -> PyStr(<< "x" >>)

FullAnalysis ==
  PyDict([ i \in DOMAIN ANALYSIS_REQUIRED |->
             << Key(ANALYSIS_REQUIRED[i][1]),
                SampleValue(ANALYSIS_REQUIRED[i][1], ANALYSIS_REQUIRED[i][2]) >> ])

With(data, field, value) == PyDict(DictSet(data.v, Key(field), value))
Without(data, field) ==
  PyDict(SelectSeq(data.v, LAMBDA item : item[1] # Key(field)))

\* What the provider may answer.
Replies ==
  << json_dumps(FullAnalysis),
    << Word("Here"), WS, Fence, Word("json"), WS >> \o json_dumps(FullAnalysis)
       \o << WS, Fence, WS >>,
    << Word("Sure"), P(":"), WS >> \o json_dumps(FullAnalysis) \o << WS, Word("Bye") >>,
    json_dumps(With(FullAnalysis, "match_score", PyStr(<< " ", "1", "0" >>))),
    json_dumps(Without(FullAnalysis, "job_description")),
    json_dumps(With(FullAnalysis, "match_score", PyInt(0))),
    json_dumps(With(FullAnalysis, "recommendation", PyStr(<< "l", "a", "t", "e", "r" >>))),
    json_dumps(With(FullAnalysis, "red_flags", PyStr(<< "x" >>))),
    json_dumps(With(FullAnalysis, "company_type", PyStr(<< " " >>))),
    << Word("Sorry"), WS, Word("no") >>,
    << Fence, Fence >>,
    << P("{"), Word("oops"), P("}") >>,
    << Num(42) >>,
    << Word("null") >>,
    << P("["), P("]") >>,
    << P("["), Str(Key("keywords")), P("]") >>,
    << Str(<< "h", "i" >>) >> >>

\* ------------------------------------------------------- provider routing
\* Model ids are sequences of characters.
_PROVIDER_PREFIXES ==
  << << << "g", "p", "t", "-" >>, "openai" >>,
     << << "o", "1" >>, "openai" >>,
     << << "o", "3" >>, "openai" >>,
     << << "c", "h", "a", "t", "g", "p", "t", "-" >>, "openai" >>,
     << << "c", "l", "a", "u", "d", "e", "-" >>, "anthropic" >>,
     << << "g", "e", "m", "i", "n", "i", "-" >>, "google" >> >>
_OWUI_PREFIX == << "o", "w", "u", "i", ":" >>

\* str.startswith(prefix)
startswith(text, prefix) ==
  Len(prefix) <= Len(text) /\ SubSeq(text, 1, Len(prefix)) = prefix

\* The loop of lines 523-530: the provider of the first prefix that matches.
RECURSIVE FirstProvider(_, _)
FirstProvider(model_lower, prefixes) ==
  IF prefixes = <<>> THEN "ollama"
  ELSE IF startswith(model_lower, Head(prefixes)[1]) THEN Head(prefixes)[2]
  ELSE FirstProvider(model_lower, Tail(prefixes))

_call_model_routes_stripped(model) ==
  LET real_model == IF startswith(model, _OWUI_PREFIX)
                    THEN SubSeq(model, Len(_OWUI_PREFIX) + 1, Len(model))
                    ELSE model
  IN  [ provider |-> FirstProvider(lower(real_model), _PROVIDER_PREFIXES),
        model |-> real_model ]

\* _call_model: the provider function called and the model id it is given.
_call_model(model) ==
  IF startswith(model, _OWUI_PREFIX)
  THEN [ provider |-> "open_webui",
         model |-> SubSeq(model, Len(_OWUI_PREFIX) + 1, Len(model)) ]
  ELSE [ provider |-> FirstProvider(lower(model), _PROVIDER_PREFIXES),
         model |-> model ]

\* ------------------------------------------------------- source selection
\* _run_search lines 153-163: dedupe, drop empty names, drop LinkedIn when
\* JobSpy is requested.
RECURSIVE DedupeNames(_, _, _)
DedupeNames(raw, has_jobspy, acc) ==
  IF raw = <<>> THEN acc
  ELSE LET name == Head(raw) IN
       IF name = "" \/ name \in Range(acc) THEN
            DedupeNames(Tail(raw), has_jobspy, acc)
       ELSE IF name = "LinkedIn" /\ has_jobspy THEN
            DedupeNames(Tail(raw), has_jobspy, acc)
       ELSE DedupeNames(Tail(raw), has_jobspy, Append(acc, name))

source_names_no_elision(sources) ==
  LET raw_names == IF sources # <<>> THEN sources ELSE ALL_SOURCES
  IN  DedupeNames(raw_names, FALSE, <<>>)

source_names(sources) ==
  LET raw_names == IF sources # <<>> THEN sources ELSE ALL_SOURCES
  IN  DedupeNames(raw_names, "JobSpy" \in Range(raw_names), <<>>)

\* _run_search lines 164-173: keep registered, available adapters.
RECURSIVE FilterActive(_, _, _)
FilterActive(names, cfg, acc) ==
  IF names = <<>> THEN acc
  ELSE LET name == Head(names) IN
       IF name \notin Range(ALL_SOURCES) THEN FilterActive(Tail(names), cfg, acc)
       ELSE IF is_available(name, cfg) THEN
            FilterActive(Tail(names), cfg, Append(acc, name))
       ELSE FilterActive(Tail(names), cfg, acc)

active_sources(sources, cfg) == FilterActive(source_names(sources), cfg, <<>>)

\* ------------------------------------------------------- small helpers
\* f"{name}: {error}" -- the string is modelled by its two parts.
SourceError_unnamed(name, error) == << "Error", error >>
SourceError(name, error) == << name, error >>
StorageBatchError == << "Storage error (batch)", "db" >>
StorageError(name) == << "Storage error (" , name >>
NoSourcesError == << "No sources available. Check API key configuration.", "" >>

FinalStatus_failed_on_errors(errs) ==
  IF errs = <<>> THEN "completed" ELSE "failed"
\* line 284: "completed" if not task.errors else "completed"
FinalStatus(errs) == IF errs = <<>> THEN "completed" ELSE "completed"

UsedBatch_never(name, using) == FALSE
\* line 229: used_batch = name in _sources_using_batch
UsedBatch(name, using) == name \in using

CanCancel_any_status(known, st) == known
\* cancel_search line 130: the task exists and is running
CanCancel(known, st) == known /\ st = "running"

TypeErrorMsg == "TypeError: unexpected keyword argument 'on_batch'"
ProviderErrorMsg == "provider error"

NoFuture == [ done |-> FALSE, results |-> <<>>, error |-> "", used_batch |-> FALSE ]

\* ------------------------------------------------------------------ state
VARIABLES
  tasks,              \* SearchManager._tasks: ids registered
  request,            \* start_search(sources=...)
  config,             \* conditional adapters that are configured
  status, cancelled, total_sources, completed_sources, jobs_found,
  new_jobs_saved, errors, started_at, finished_at, source_results,
  source_status,      \* the SearchTask fields
  active,             \* active_sources (ordered)
  using_batch,        \* _sources_using_batch
  db,                 \* job_ids in the jobs table
  storage_up,         \* whether MySQL accepts connections during this run
  opc, o_cur, o_tmp, o_new,   \* orchestrator thread: position and locals
  harvested,          \* futures as_completed has yielded
  wpc, all_jobs, w_batch, w_tmp, w_ret, w_n, future,  \* pool threads
  cpc, c_id, c_ret, ncancel,  \* cancel_search caller: position, argument, result, calls
  cancel_ok,          \* history: some cancel_search call returned True
  storage_failed,     \* history: some save_jobs call raised
  passed,             \* history: URLs handed to save_jobs, per source
  counted,            \* history: amount added to jobs_found, per source
  paths,              \* history: paths a source's records took
  saved_sum,          \* history: sum of save_jobs return values
  calls,              \* history: fetch_jobs invocations the pool made, per adapter
  ctor_args,          \* Job(...): the fields two constructor calls are given
  ctor_jobs,          \* Job(...): the two objects built
  jobs_tbl,           \* the rows of the jobs table
  sj,                 \* save_jobs, per caller: position, rows, loop index, saved,
                      \* return value, calls made; history: rows added, repeat
  sj_returned,        \* history: batches whose save_jobs call has returned
  ai_prompts,         \* the rows of the ai_prompts table
  next_prompt_id,     \* its AUTO_INCREMENT counter
  pr,                 \* ai_prompts calls, per caller: position, method, arguments,
                      \* return value, calls made; history: ran undisturbed
  favourites, applications, not_interested,   \* the rows of the triage tables
  triage,             \* the last triage call: method, job_id, return value
  ai_analyses,        \* the rows of the ai_analyses table
  next_analysis_id,   \* its AUTO_INCREMENT counter
  now,                \* the database clock, in seconds
  an_calls,           \* history: per pair saved, the last call and the ids returned
  nupserts,           \* save_ai_analysis calls made
  an,                 \* api_ai_analyse: position, locals, response; requests made
  llm_log,            \* the entries of llm_requests.log and llm_responses.log
  fn                  \* a function applied on its own: position, arguments, result

taskvars == << status, cancelled, total_sources, completed_sources,
               jobs_found, new_jobs_saved, errors, started_at, finished_at,
               source_results, source_status >>
orchvars == << active, using_batch, opc, o_cur, o_tmp, o_new, harvested >>
workvars == << wpc, all_jobs, w_batch, w_tmp, w_ret, w_n, future >>
cancvars == << cpc, c_id, c_ret, ncancel, cancel_ok >>
histvars == << storage_failed, passed, counted, paths, saved_sum >>
mainvars == << tasks, request, config, taskvars, orchvars, db, storage_up,
              workvars, cancvars, histvars >>
ctorvars == << ctor_args, ctor_jobs >>
\* State of the parts of the program the search threads never touch.
jobsvars == << jobs_tbl, sj, sj_returned >>
promptvars == << ai_prompts, next_prompt_id, pr >>
triagevars == << favourites, applications, not_interested, triage >>
analysisvars == << ai_analyses, next_analysis_id, now, an_calls, nupserts >>
analysevars == << an, llm_log >>
sidevars == << calls, ctorvars, jobsvars, promptvars, triagevars, analysisvars,
              analysevars, fn >>
vars == << mainvars, sidevars >>

MainInit ==
  /\ tasks = {} /\ request = <<>> /\ config = {}
  /\ status = "pending" /\ cancelled = FALSE
  /\ total_sources = 0 /\ completed_sources = 0
  /\ jobs_found = 0 /\ new_jobs_saved = 0 /\ errors = <<>>
  /\ started_at = 0 /\ finished_at = 0
  /\ source_results = [ s \in {} |-> 0 ]
  /\ source_status = [ s \in {} |-> 0 ]
  /\ active = <<>> /\ using_batch = {}
  /\ db = {} /\ storage_up = TRUE
  /\ opc = "idle" /\ o_cur = "" /\ o_tmp = 0 /\ o_new = 0 /\ harvested = {}
  /\ wpc = [ s \in Pool |-> "none" ]
  /\ all_jobs = [ s \in Pool |-> <<>> ]
  /\ w_batch = [ s \in Pool |-> <<>> ]
  /\ w_tmp = [ s \in Pool |-> 0 ]
  /\ w_ret = [ s \in Pool |-> 0 ]
  /\ w_n = [ s \in Pool |-> 0 ]
  /\ future = [ s \in Pool |-> NoFuture ]
  /\ cpc = "idle" /\ c_id = "" /\ c_ret = FALSE /\ ncancel = 0 /\ cancel_ok = FALSE
  /\ storage_failed = FALSE
  /\ passed = [ s \in Pool |-> <<>> ]
  /\ counted = [ s \in Pool |-> 0 ]
  /\ paths = [ s \in Pool |-> {} ]
  /\ saved_sum = 0

PoolIdle == calls = [ s \in Range(ALL_SOURCES) |-> 0 ]
CtorIdle == ctor_args = <<>> /\ ctor_jobs = <<>>

SjIdle == [ pc |-> "idle", rows |-> <<>>, i |-> 0, saved |-> 0, ret |-> 0,
            ncalls |-> 0, added |-> 0, repeat |-> FALSE ]
JobsIdle ==
  /\ jobs_tbl = {} /\ sj = [ c \in Callers |-> SjIdle ] /\ sj_returned = {}

PrIdle == [ pc |-> "idle", op |-> "", prompt_id |-> 0, title |-> "",
            is_active |-> FALSE, ret |-> 0, ncalls |-> 0, alone |-> FALSE ]
PromptsIdle ==
  /\ ai_prompts = {} /\ next_prompt_id = 1 /\ pr = [ c \in Callers |-> PrIdle ]

NoTriage == [ op |-> "", job_id |-> "", ret |-> FALSE ]
TriageIdle ==
  /\ favourites = {} /\ applications = {} /\ not_interested = {}
  /\ triage = NoTriage

AnalysesIdle ==
  /\ ai_analyses = {} /\ next_analysis_id = 1 /\ now = 0
  /\ an_calls = << >> /\ nupserts = 0

AnIdle == [ pc |-> "idle", job_id |-> "", prompt_id |-> 0, model |-> "",
            raw |-> <<>>, code |-> 0, analysis_id |-> 0, nrequests |-> 0,
            written |-> {} ]
AnalyseIdle == an = AnIdle /\ llm_log = <<>>

FnIdle == fn = [ pc |-> "idle" ]

\* The parts not exercised by a specification stay as constructed.
IdleExcept(part) ==
  /\ part # "pool" => PoolIdle
  /\ part # "ctor" => CtorIdle
  /\ part # "jobs" => JobsIdle
  /\ part # "prompts" => PromptsIdle
  /\ part # "triage" => TriageIdle
  /\ part # "analyses" => AnalysesIdle
  /\ part # "analyse" => AnalyseIdle
  /\ part # "fn" => FnIdle

Init == MainInit /\ PoolIdle /\ IdleExcept("pool")


\* ------------------------------------------------------------ API thread
\* start_search (lines 101-122): register a pending task, start the thread.
start_search ==
  /\ opc = "idle"
  /\ \E r \in Requests : \E cfg \in SUBSET (Conditional \cap Range(r)) :
        /\ request' = r
        /\ config' = cfg
  /\ storage_up' \in BOOLEAN
  /\ tasks' = tasks \cup { "t1" }
  /\ opc' = "run"
  /\ UNCHANGED << sidevars, taskvars, active, using_batch, o_cur, o_tmp, o_new,
                  harvested, db, workvars, cancvars, histvars >>

\* cancel_search line 129-131: look the task up and test its status.
cancel_check ==
  /\ cpc = "idle" /\ ncancel < MaxCancels
  /\ \E task_id \in TaskIds :
        /\ c_id' = task_id
        /\ IF CanCancel(task_id \in tasks, status)
           THEN /\ cpc' = "set"
                /\ UNCHANGED << c_ret, cancel_ok >>
           ELSE /\ cpc' = "idle"
                /\ c_ret' = FALSE
                /\ UNCHANGED cancel_ok
  /\ ncancel' = ncancel + 1
  /\ UNCHANGED << sidevars, tasks, request, config, taskvars, orchvars, db, storage_up, workvars,
                  histvars >>

\* A cancel_search that also writes the status itself.
cancel_set_writes_status ==
  /\ cpc = "set"
  /\ cancelled' = TRUE
  /\ status' = "cancelled"
  /\ c_ret' = TRUE /\ cancel_ok' = TRUE
  /\ cpc' = "idle"
  /\ UNCHANGED << sidevars, tasks, request, config, total_sources,
                  completed_sources, jobs_found, new_jobs_saved, errors,
                  started_at, finished_at, source_results, source_status,
                  orchvars, db, storage_up, workvars, c_id, ncancel,
                  histvars >>

\* cancel_search line 132-133: set the flag, return True.
cancel_set ==
  /\ cpc = "set"
  /\ cancelled' = TRUE
  /\ c_ret' = TRUE /\ cancel_ok' = TRUE
  /\ cpc' = "idle"
  /\ UNCHANGED << sidevars, tasks, request, config, status, total_sources,
                  completed_sources, jobs_found, new_jobs_saved, errors,
                  started_at, finished_at, source_results, source_status,
                  orchvars, db, storage_up, workvars, c_id, ncancel,
                  histvars >>

\* ---------------------------------------------------- orchestrator thread
\* lines 149-150
run_begin ==
  /\ opc = "run"
  /\ status' = "running" /\ started_at' = 1
  /\ opc' = "select"
  /\ UNCHANGED << sidevars, tasks, request, config, cancelled, total_sources,
                  completed_sources, jobs_found, new_jobs_saved, errors,
                  finished_at, source_results, source_status, active,
                  using_batch, o_cur, o_tmp, o_new, harvested, db, storage_up, workvars,
                  cancvars, histvars >>

\* lines 152-175, and 184-185 + 242-246 when a source is left: choose the
\* adapters, publish total_sources, create the per-source entries and submit
\* one future per adapter.
select_sources ==
  /\ opc = "select"
  /\ LET act == active_sources(request, config) IN
       /\ active' = act
       /\ total_sources' = Len(act)
       /\ IF act = <<>>
          THEN /\ opc' = "fail"
               /\ UNCHANGED << source_status, wpc >>
          ELSE /\ opc' = "wait"
               /\ source_status' =
                    [ s \in Range(act) |->
                        [ status |-> "pending", jobs |-> 0, error |-> "" ] ]
               /\ wpc' = [ s \in Pool |->
                             IF s \in Range(act) THEN "queued" ELSE wpc[s] ]
  /\ UNCHANGED << sidevars, tasks, request, config, status, cancelled,
                  completed_sources, jobs_found, new_jobs_saved, errors,
                  started_at, finished_at, source_results, using_batch,
                  o_cur, o_tmp, o_new, harvested, db, storage_up, all_jobs, w_batch,
                  w_tmp, w_ret, w_n, future, cancvars, histvars >>

fail_status_completed ==
  /\ opc = "fail"
  /\ status' = "completed"
  /\ opc' = "fail_fin"
  /\ UNCHANGED << sidevars, tasks, request, config, cancelled, total_sources,
                  completed_sources, jobs_found, new_jobs_saved, errors,
                  started_at, finished_at, source_results, source_status,
                  active, using_batch, o_cur, o_tmp, o_new, harvested, db, storage_up,
                  workvars, cancvars, histvars >>

\* line 178
fail_status ==
  /\ opc = "fail"
  /\ status' = "failed"
  /\ opc' = "fail_fin"
  /\ UNCHANGED << sidevars, tasks, request, config, cancelled, total_sources,
                  completed_sources, jobs_found, new_jobs_saved, errors,
                  started_at, finished_at, source_results, source_status,
                  active, using_batch, o_cur, o_tmp, o_new, harvested, db, storage_up,
                  workvars, cancvars, histvars >>

\* lines 179-181
fail_finish ==
  /\ opc = "fail_fin"
  /\ errors' = Append(errors, NoSourcesError)
  /\ finished_at' = 1
  /\ opc' = "done"
  /\ UNCHANGED << sidevars, tasks, request, config, status, cancelled, total_sources,
                  completed_sources, jobs_found, new_jobs_saved, started_at,
                  source_results, source_status, active, using_batch, o_cur,
                  o_tmp, o_new, harvested, db, storage_up, workvars, cancvars, histvars >>

\* The futures as_completed can yield next: finished, not yet yielded.
Ready == { s \in Range(active) : future[s].done /\ s \notin harvested }

\* lines 247-249: a future is yielded and the flag is found set.
harvest_cancelled ==
  /\ opc = "wait" /\ Ready # {}
  /\ cancelled
  /\ status' = "cancelled"
  /\ opc' = "cancel_fin"
  /\ UNCHANGED << sidevars, tasks, request, config, cancelled, total_sources,
                  completed_sources, jobs_found, new_jobs_saved, errors,
                  started_at, finished_at, source_results, source_status,
                  active, using_batch, o_cur, o_tmp, o_new, harvested, db, storage_up,
                  workvars, cancvars, histvars >>

\* line 250
cancel_finish ==
  /\ opc = "cancel_fin"
  /\ finished_at' = 1
  /\ opc' = "pool_exit"
  /\ UNCHANGED << sidevars, tasks, request, config, status, cancelled, total_sources,
                  completed_sources, jobs_found, new_jobs_saved, errors,
                  started_at, source_results, source_status, active,
                  using_batch, o_cur, o_tmp, o_new, harvested, db, storage_up, workvars,
                  cancvars, histvars >>

\* line 252 leaves the `with` block: ThreadPoolExecutor.__exit__ is
\* shutdown(wait=True), it returns once every submitted call has run.
pool_exit ==
  /\ opc = "pool_exit"
  /\ \A s \in Range(active) : future[s].done
  /\ opc' = "done"
  /\ UNCHANGED << sidevars, tasks, request, config, taskvars, active, using_batch,
                  o_cur, o_tmp, o_new, harvested, db, storage_up, workvars, cancvars,
                  histvars >>

\* lines 247-260: a future is yielded, the flag is clear; count the source,
\* record its result size, then branch on error / used_batch.  The bulk
\* branch ends this step with the read half of `task.jobs_found += ...`.
harvest(s) ==
  /\ opc = "wait" /\ s \in Ready
  /\ ~cancelled
  /\ harvested' = harvested \cup { s }
  /\ completed_sources' = completed_sources + 1
  /\ source_results' =
       [ n \in DOMAIN source_results \cup { s } |->
           IF n = s THEN Len(future[s].results) ELSE source_results[n] ]
  /\ IF future[s].error # ""
     THEN /\ errors' = Append(errors, SourceError(s, future[s].error))
          /\ UNCHANGED << opc, o_cur, o_tmp >>
     ELSE IF ~future[s].used_batch
     THEN /\ o_cur' = s
          /\ o_tmp' = jobs_found
          /\ opc' = "bulk_found"
          /\ UNCHANGED errors
     ELSE UNCHANGED << errors, opc, o_cur, o_tmp >>
  /\ UNCHANGED << sidevars, tasks, request, config, status, cancelled, total_sources,
                  jobs_found, new_jobs_saved, started_at, finished_at,
                  source_status, active, using_batch, o_new, db, storage_up, workvars,
                  cancvars, histvars >>

\* line 260, write half
bulk_found ==
  /\ opc = "bulk_found"
  /\ jobs_found' = o_tmp + Len(future[o_cur].results)
  /\ counted' = [ counted EXCEPT ![o_cur] = @ + Len(future[o_cur].results) ]
  /\ opc' = "bulk_save"
  /\ UNCHANGED << sidevars, tasks, request, config, status, cancelled, total_sources,
                  completed_sources, new_jobs_saved, errors, started_at,
                  finished_at, source_results, source_status, active,
                  using_batch, o_cur, o_tmp, o_new, harvested, db, storage_up, workvars,
                  cancvars, storage_failed, passed, paths, saved_sum >>

\* lines 261-265: the bulk save; a storage exception is recorded and the
\* loop goes on.
bulk_save ==
  /\ opc = "bulk_save"
  /\ passed' = [ passed EXCEPT ![o_cur] = @ \o future[o_cur].results ]
  /\ paths' = [ paths EXCEPT ![o_cur] = @ \cup { "bulk" } ]
  /\ \/ LET r == save_jobs(db, JobsOf(o_cur, future[o_cur].results)) IN
          /\ storage_up
          /\ db' = r.jobs
          /\ o_new' = r.saved
          /\ saved_sum' = saved_sum + r.saved
          /\ opc' = "bulk_read"
          /\ UNCHANGED << errors, storage_failed >>
     \/ /\ ~storage_up
        /\ errors' = Append(errors, StorageError(o_cur))
        /\ storage_failed' = TRUE
        /\ opc' = "wait"
        /\ UNCHANGED << db, o_new, saved_sum >>
  /\ UNCHANGED << sidevars, tasks, request, config, status, cancelled, total_sources,
                  completed_sources, jobs_found, new_jobs_saved, started_at,
                  finished_at, source_results, source_status, active,
                  using_batch, o_cur, o_tmp, harvested, workvars, cancvars,
                  counted, storage_up >>

\* line 263, read half
bulk_read ==
  /\ opc = "bulk_read"
  /\ o_tmp' = new_jobs_saved
  /\ opc' = "bulk_write"
  /\ UNCHANGED << sidevars, tasks, request, config, taskvars, active, using_batch,
                  o_cur, o_new, harvested, db, storage_up, workvars, cancvars, histvars >>

\* line 263, write half
bulk_write ==
  /\ opc = "bulk_write"
  /\ new_jobs_saved' = o_tmp + o_new
  /\ opc' = "wait"
  /\ UNCHANGED << sidevars, tasks, request, config, status, cancelled, total_sources,
                  completed_sources, jobs_found, errors, started_at,
                  finished_at, source_results, source_status, active,
                  using_batch, o_cur, o_tmp, o_new, harvested, db, storage_up, workvars,
                  cancvars, histvars >>

\* lines 247 and 279-282: every future has been yielded, the loop and the
\* `with` block end, the flag is tested once more.
final_check ==
  /\ opc = "wait" /\ harvested = Range(active)
  /\ IF cancelled
     THEN /\ status' = "cancelled"
          /\ opc' = "cancel_fin"
     ELSE /\ opc' = "complete"
          /\ UNCHANGED status
  /\ UNCHANGED << sidevars, tasks, request, config, cancelled, total_sources,
                  completed_sources, jobs_found, new_jobs_saved, errors,
                  started_at, finished_at, source_results, source_status,
                  active, using_batch, o_cur, o_tmp, o_new, harvested, db, storage_up,
                  workvars, cancvars, histvars >>

\* line 284
complete ==
  /\ opc = "complete"
  /\ status' = FinalStatus(errors)
  /\ opc' = "finish"
  /\ UNCHANGED << sidevars, tasks, request, config, cancelled, total_sources,
                  completed_sources, jobs_found, new_jobs_saved, errors,
                  started_at, finished_at, source_results, source_status,
                  active, using_batch, o_cur, o_tmp, o_new, harvested, db, storage_up,
                  workvars, cancvars, histvars >>

\* line 285
finish ==
  /\ opc = "finish"
  /\ finished_at' = 1
  /\ opc' = "done"
  /\ UNCHANGED << sidevars, tasks, request, config, status, cancelled, total_sources,
                  completed_sources, jobs_found, new_jobs_saved, errors,
                  started_at, source_results, source_status, active,
                  using_batch, o_cur, o_tmp, o_new, harvested, db, storage_up, workvars,
                  cancvars, histvars >>


\* --------------------------------------------------------- pool threads
Running == { s \in Pool : wpc[s] \notin { "none", "queued", "done" } }

\* line 242: the executor runs a queued call only on one of its max_workers
\* threads, so a call starts only while fewer than that many are executing.
IdleWorker_always(running) == TRUE

IdleWorker(running) == Cardinality(running) < MaxWorkers

\* lines 204-206: a pool thread takes the next queued call.
fetch_start(s) ==
  /\ wpc[s] = "queued"
  /\ IdleWorker(Running)
  /\ source_status' = [ source_status EXCEPT ![s].status = "running" ]
  /\ wpc' = [ wpc EXCEPT ![s] = "fetch" ]
  /\ UNCHANGED << sidevars, tasks, request, config, status, cancelled, total_sources,
                  completed_sources, jobs_found, new_jobs_saved, errors,
                  started_at, finished_at, source_results, orchvars, db, storage_up,
                  all_jobs, w_batch, w_tmp, w_ret, w_n, future, cancvars,
                  histvars >>

\* lines 231-238: the except branch of _fetch_from_source.
Failed(s, msg) ==
  /\ source_status' = [ source_status EXCEPT ![s].status = "error",
                                             ![s].error = msg ]
  /\ future' = [ future EXCEPT ![s] =
                   [ done |-> TRUE, results |-> <<>>, error |-> msg,
                     used_batch |-> FALSE ] ]
  /\ wpc' = [ wpc EXCEPT ![s] = "done" ]

\* lines 212-222 with an adapter whose fetch_jobs has no on_batch parameter
\* and no **kwargs: the call itself raises TypeError.
fetch_type_error(s) ==
  /\ wpc[s] = "fetch"
  /\ s \notin AcceptsKwargs
  /\ Failed(s, TypeErrorMsg)
  /\ UNCHANGED << sidevars, tasks, request, config, status, cancelled, total_sources,
                  completed_sources, jobs_found, new_jobs_saved, errors,
                  started_at, finished_at, source_results, orchvars, db, storage_up,
                  all_jobs, w_batch, w_tmp, w_ret, w_n, cancvars, histvars >>

\* The adapter raises while fetching (network, provider payload).
fetch_raise(s) ==
  /\ wpc[s] = "fetch"
  /\ s \in AcceptsKwargs
  /\ Failed(s, ProviderErrorMsg)
  /\ UNCHANGED << sidevars, tasks, request, config, status, cancelled, total_sources,
                  completed_sources, jobs_found, new_jobs_saved, errors,
                  started_at, finished_at, source_results, orchvars, db, storage_up,
                  all_jobs, w_batch, w_tmp, w_ret, w_n, cancvars, histvars >>

\* A batching adapter finishes one board / page with a non-empty batch:
\* all_jobs.extend(batch); if on_batch and batch: on_batch(batch).
\* _save_batch lines 193-196, up to the read half of
\* `task.jobs_found += len(batch)`.  (A board without jobs changes nothing.)
fetch_batch(s) ==
  /\ wpc[s] = "fetch"
  /\ s \in AcceptsKwargs /\ s \in EmitsBatches
  /\ w_n[s] < MaxBatches
  /\ \E batch \in Lists \ { <<>> } :
       /\ all_jobs' = [ all_jobs EXCEPT ![s] = @ \o batch ]
       /\ w_batch' = [ w_batch EXCEPT ![s] = batch ]
  /\ w_n' = [ w_n EXCEPT ![s] = @ + 1 ]
  /\ using_batch' = using_batch \cup { s }
  /\ w_tmp' = [ w_tmp EXCEPT ![s] = jobs_found ]
  /\ wpc' = [ wpc EXCEPT ![s] = "cb_found" ]
  /\ UNCHANGED << sidevars, tasks, request, config, taskvars, active, opc, o_cur,
                  o_tmp, o_new, harvested, db, storage_up, w_ret, future, cancvars,
                  histvars >>

\* line 196, write half
cb_found(s) ==
  /\ wpc[s] = "cb_found"
  /\ jobs_found' = w_tmp[s] + Len(w_batch[s])
  /\ counted' = [ counted EXCEPT ![s] = @ + Len(w_batch[s]) ]
  /\ wpc' = [ wpc EXCEPT ![s] = "cb_read" ]
  /\ UNCHANGED << sidevars, tasks, request, config, status, cancelled, total_sources,
                  completed_sources, new_jobs_saved, errors, started_at,
                  finished_at, source_results, source_status, orchvars, db, storage_up,
                  all_jobs, w_batch, w_tmp, w_ret, w_n, future, cancvars,
                  storage_failed, passed, paths, saved_sum >>

\* line 198, read half: task.new_jobs_saved is loaded before save_jobs runs.
cb_read(s) ==
  /\ wpc[s] = "cb_read"
  /\ w_tmp' = [ w_tmp EXCEPT ![s] = new_jobs_saved ]
  /\ wpc' = [ wpc EXCEPT ![s] = "cb_save" ]
  /\ UNCHANGED << sidevars, tasks, request, config, taskvars, orchvars, db, storage_up, all_jobs,
                  w_batch, w_ret, w_n, future, cancvars, histvars >>

\* lines 198-200: storage.save_jobs(batch); an exception is recorded.
cb_save(s) ==
  /\ wpc[s] = "cb_save"
  /\ passed' = [ passed EXCEPT ![s] = @ \o w_batch[s] ]
  /\ paths' = [ paths EXCEPT ![s] = @ \cup { "batch" } ]
  /\ \/ LET r == save_jobs(db, JobsOf(s, w_batch[s])) IN
          /\ storage_up
          /\ db' = r.jobs
          /\ w_ret' = [ w_ret EXCEPT ![s] = r.saved ]
          /\ saved_sum' = saved_sum + r.saved
          /\ wpc' = [ wpc EXCEPT ![s] = "cb_write" ]
          /\ UNCHANGED << errors, storage_failed >>
     \/ /\ ~storage_up
        /\ errors' = Append(errors, StorageBatchError)
        /\ storage_failed' = TRUE
        /\ wpc' = [ wpc EXCEPT ![s] = "fetch" ]
        /\ UNCHANGED << db, w_ret, saved_sum >>
  /\ UNCHANGED << sidevars, tasks, request, config, status, cancelled, total_sources,
                  completed_sources, jobs_found, new_jobs_saved, started_at,
                  finished_at, source_results, source_status, orchvars,
                  all_jobs, w_batch, w_tmp, w_n, future, cancvars, counted,
                  storage_up >>

\* line 198, write half
cb_write(s) ==
  /\ wpc[s] = "cb_write"
  /\ new_jobs_saved' = w_tmp[s] + w_ret[s]
  /\ wpc' = [ wpc EXCEPT ![s] = "fetch" ]
  /\ UNCHANGED << sidevars, tasks, request, config, status, cancelled, total_sources,
                  completed_sources, jobs_found, errors, started_at,
                  finished_at, source_results, source_status, orchvars, db, storage_up,
                  all_jobs, w_batch, w_tmp, w_ret, w_n, future, cancvars,
                  histvars >>

\* lines 223-230: fetch_jobs returns the aggregate list.  A batching adapter
\* returns all_jobs; the others return the list they built.
fetch_return(s) ==
  /\ wpc[s] = "fetch"
  /\ s \in AcceptsKwargs
  /\ \E results \in (IF s \in EmitsBatches THEN { all_jobs[s] } ELSE Lists) :
       /\ source_status' = [ source_status EXCEPT ![s].status = "completed",
                                                  ![s].jobs = Len(results) ]
       /\ future' = [ future EXCEPT ![s] =
                        [ done |-> TRUE, results |-> results, error |-> "",
                          used_batch |-> UsedBatch(s, using_batch) ] ]
  /\ wpc' = [ wpc EXCEPT ![s] = "done" ]
  /\ UNCHANGED << sidevars, tasks, request, config, status, cancelled, total_sources,
                  completed_sources, jobs_found, new_jobs_saved, errors,
                  started_at, finished_at, source_results, orchvars, db, storage_up,
                  all_jobs, w_batch, w_tmp, w_ret, w_n, cancvars, histvars >>

\* ------------------------------------------------------- specifications
Orchestrator ==
  \/ run_begin \/ select_sources \/ fail_status \/ fail_finish
  \/ harvest_cancelled \/ cancel_finish \/ pool_exit
  \/ \E s \in Pool : harvest(s)
  \/ bulk_found \/ bulk_save \/ bulk_read \/ bulk_write
  \/ final_check \/ complete \/ finish

WorkerOf(s) ==
  \/ fetch_start(s) \/ fetch_type_error(s) \/ fetch_raise(s)
  \/ fetch_batch(s) \/ cb_found(s) \/ cb_read(s) \/ cb_save(s)
  \/ cb_write(s) \/ fetch_return(s)

Worker == \E s \in Pool : WorkerOf(s)

Next == start_search \/ cancel_check \/ cancel_set \/ Orchestrator \/ Worker

Spec == Init /\ [][Next]_vars

\* A run in which cancel_search is never called.  The orchestrator thread
\* and the pool threads are scheduled fairly (OS threads), and every adapter
\* call ends: it returns or raises after at most MaxBatches deliveries.
OrchestratorQuiet ==
  \/ run_begin \/ select_sources \/ fail_status \/ fail_finish
  \/ \E s \in Pool : harvest(s)
  \/ bulk_found \/ bulk_save \/ bulk_read \/ bulk_write
  \/ final_check \/ complete \/ finish

NextQuiet == start_search \/ OrchestratorQuiet \/ Worker

QuietSpec ==
  /\ Init /\ [][NextQuiet]_vars
  /\ WF_vars(OrchestratorQuiet)
  /\ \A s \in Pool : WF_vars(WorkerOf(s))


\* ------------------------------------------------- the pool, call by call
\* The same run seen at the grain of whole adapter calls: one step when a
\* pool thread takes a call and invokes fetch_jobs, one when the call ends.
\* Providers answer, so a call ends in error only for the TypeError of an
\* adapter without **kwargs.
pool_start_search ==
  /\ opc = "idle"
  /\ request' \in PoolRequests
  /\ config' \in PoolConfigs
  /\ tasks' = tasks \cup { "t1" }
  /\ opc' = "run"
  /\ UNCHANGED << sidevars, taskvars, active, using_batch, o_cur, o_tmp, o_new,
                  harvested, db, storage_up, workvars, cancvars, histvars >>

PoolRunning ==
  { s \in DOMAIN source_status : source_status[s].status = "running" }

\* The executor's work queue is first-in first-out: the call taken is the
\* earliest submitted one that no thread has taken yet.
NextQueued(s) ==
  \E j \in DOMAIN active :
     /\ active[j] = s
     /\ source_status[s].status = "pending"
     /\ \A i \in 1..(j - 1) : source_status[active[i]].status # "pending"

\* lines 203-213: a pool thread takes the call, marks the source running and
\* invokes source.fetch_jobs(...).
pool_take(s) ==
  /\ opc = "wait"
  /\ NextQueued(s)
  /\ IdleWorker(PoolRunning)
  /\ source_status' = [ source_status EXCEPT ![s].status = "running" ]
  /\ calls' = [ calls EXCEPT ![s] = @ + 1 ]
  /\ UNCHANGED << ctorvars, jobsvars, promptvars, triagevars, analysisvars,
                  analysevars, fn, tasks, request, config, status, cancelled, total_sources,
                  completed_sources, jobs_found, new_jobs_saved, errors,
                  started_at, finished_at, source_results, orchvars, db,
                  storage_up, workvars, cancvars, histvars >>

\* lines 214-238: the call returns (phase completed) or raises (phase error).
pool_return(s) ==
  /\ opc = "wait"
  /\ s \in PoolRunning
  /\ source_status' =
       [ source_status EXCEPT ![s].status =
           IF s \in AcceptsKwargs THEN "completed" ELSE "error",
         ![s].error = IF s \in AcceptsKwargs THEN "" ELSE TypeErrorMsg ]
  /\ UNCHANGED << sidevars, tasks, request, config, status, cancelled,
                  total_sources, completed_sources, jobs_found,
                  new_jobs_saved, errors, started_at, finished_at,
                  source_results, orchvars, db, storage_up, workvars,
                  cancvars, histvars >>

\* lines 242-285 once every call has ended: the `with` block is left (the
\* executor's shutdown waits for every submitted call and cancels none) and
\* the task is finished.  The harvest loop that runs meanwhile is followed
\* statement by statement in Spec; it starts and ends no call.
pool_shutdown ==
  /\ opc = "wait"
  /\ \A s \in Range(active) : source_status[s].status \in { "completed", "error" }
  /\ completed_sources' = Len(active)
  /\ status' = "completed" /\ finished_at' = 1
  /\ opc' = "done"
  /\ UNCHANGED << sidevars, tasks, request, config, cancelled, total_sources,
                  jobs_found, new_jobs_saved, errors, started_at,
                  source_results, source_status, active, using_batch, o_cur,
                  o_tmp, o_new, harvested, db, storage_up, workvars, cancvars,
                  histvars >>

PoolNext ==
  \/ pool_start_search
  \/ run_begin \/ select_sources \/ fail_status \/ fail_finish
  \/ \E s \in Range(ALL_SOURCES) : pool_take(s)
  \/ \E s \in Range(ALL_SOURCES) : pool_return(s)
  \/ pool_shutdown

PoolSpec == Init /\ [][PoolNext]_vars


\* ------------------------------------------------------ Job construction
\* Two Job(...) calls with arbitrary fields.
CtorInit ==
  /\ MainInit /\ IdleExcept("ctor")
  /\ ctor_args \in JobArgs \X JobArgs
  /\ ctor_jobs = <<>>

\* dataclass __init__ followed by __post_init__, for both calls.
construct ==
  /\ ctor_jobs = <<>>
  /\ ctor_jobs' = << __post_init__(ctor_args[1]), __post_init__(ctor_args[2]) >>
  /\ UNCHANGED << mainvars, calls, ctor_args, jobsvars, promptvars, triagevars, analysisvars, analysevars, fn >>

CtorNext == construct

CtorSpec == CtorInit /\ [][CtorNext]_vars


\* ------------------------------------------------ save_jobs, row by row
\* Concurrent save_jobs calls on pooled autocommit connections: every
\* cursor.execute is one atomic statement of the database.
JobsInit == MainInit /\ IdleExcept("jobs") /\ JobsIdle

\* lines 191-229: return 0 for an empty list, else build the rows and take a
\* connection.
sj_call(c) ==
  /\ sj[c].pc = "idle" /\ sj[c].ncalls < MaxSaves
  /\ \E jobs \in Batches :
       sj' = [ sj EXCEPT ![c] =
                 [ pc |-> IF jobs = <<>> THEN "done" ELSE "loop",
                   rows |-> jobs, i |-> 1, saved |-> 0, ret |-> 0,
                   ncalls |-> @.ncalls + 1, added |-> 0,
                   repeat |-> jobs \in sj_returned ] ]
  /\ UNCHANGED << mainvars, calls, ctorvars, jobs_tbl, sj_returned, promptvars, triagevars, analysisvars, analysevars, fn >>

\* lines 232-234: one pass of the loop.
sj_execute(c) ==
  /\ sj[c].pc = "loop" /\ sj[c].i <= Len(sj[c].rows)
  /\ LET r == insert_ignore(jobs_tbl, sj[c].rows[sj[c].i]) IN
       /\ jobs_tbl' = r.tbl
       /\ sj' = [ sj EXCEPT ![c].saved = @ + r.rowcount, ![c].i = @ + 1,
                            ![c].added = @ + Cardinality(r.tbl)
                                           - Cardinality(jobs_tbl) ]
  /\ UNCHANGED << mainvars, calls, ctorvars, sj_returned, promptvars, triagevars, analysisvars, analysevars, fn >>

\* lines 235-238: the loop is over; return saved.
sj_return(c) ==
  /\ sj[c].pc = "loop" /\ sj[c].i > Len(sj[c].rows)
  /\ sj' = [ sj EXCEPT ![c].pc = "done", ![c].ret = sj[c].saved ]
  /\ UNCHANGED << mainvars, calls, ctorvars, jobs_tbl, sj_returned, promptvars, triagevars, analysisvars, analysevars, fn >>

\* The caller has the result and may call again.
sj_again(c) ==
  /\ sj[c].pc = "done"
  /\ sj_returned' = sj_returned \cup { sj[c].rows }
  /\ sj' = [ sj EXCEPT ![c].pc = "idle" ]
  /\ UNCHANGED << mainvars, calls, ctorvars, jobs_tbl, promptvars, triagevars, analysisvars, analysevars, fn >>

JobsNext ==
  \E c \in Callers : sj_call(c) \/ sj_execute(c) \/ sj_return(c) \/ sj_again(c)

JobsSpec == JobsInit /\ [][JobsNext]_vars


\* ------------------------------------------- ai_prompts, statement by statement
\* Request threads calling the ai_prompts methods on pooled autocommit
\* connections: every cursor.execute is one atomic statement.
PromptsInit ==
  /\ MainInit /\ IdleExcept("prompts")
  /\ ai_prompts \in PromptTables
  /\ next_prompt_id = 3
  /\ pr = [ c \in Callers |-> PrIdle ]

InCall(c) == pr[c].pc \notin { "idle", "done" }

\* Caller c executes a statement: calls of other callers under way are no
\* longer on their own.
Statement(c, self) ==
  [ d \in Callers |->
      IF d = c THEN self
      ELSE IF InCall(d) THEN [ pr[d] EXCEPT !.alone = FALSE ] ELSE pr[d] ]

Begin(c, op, prompt_id, title, is_active, pc) ==
  [ pc |-> pc, op |-> op, prompt_id |-> prompt_id, title |-> title,
    is_active |-> is_active, ret |-> 0, ncalls |-> pr[c].ncalls + 1,
    alone |-> \A d \in Callers \ { c } : ~InCall(d) ]

CanCall(c) == pr[c].pc \in { "idle", "done" } /\ pr[c].ncalls < MaxPromptCalls

Clear(r) == [ r EXCEPT !.is_active = 0 ]

\* set_active_ai_prompt lines 1133-1136: UPDATE ai_prompts SET is_active = 0
set_active_ai_prompt(c) ==
  /\ CanCall(c)
  /\ \E p \in PromptIds :
       LET u == UpdatePrompts(ai_prompts, LAMBDA r : TRUE, Clear) IN
         /\ ai_prompts' = u.tbl
         /\ pr' = Statement(c, Begin(c, "set_active", p, "", TRUE, "set"))
  /\ UNCHANGED << mainvars, calls, ctorvars, jobsvars, next_prompt_id, triagevars, analysisvars, analysevars, fn >>

\* lines 1137-1142: UPDATE ... SET is_active = 1 WHERE id = p; return
\* rowcount > 0.
set_active_set(c) ==
  /\ pr[c].pc = "set"
  /\ LET u == UpdatePrompts(ai_prompts, LAMBDA r : r.id = pr[c].prompt_id,
                            LAMBDA r : [ r EXCEPT !.is_active = 1 ]) IN
       /\ ai_prompts' = u.tbl
       /\ pr' = Statement(c, [ pr[c] EXCEPT !.pc = "done",
                                            !.ret = IF u.rowcount > 0 THEN 1 ELSE 0 ])
  /\ UNCHANGED << mainvars, calls, ctorvars, jobsvars, next_prompt_id, triagevars, analysisvars, analysevars, fn >>

\* create_ai_prompt lines 1041-1044 with is_active: clear every flag.
create_ai_prompt(c) ==
  /\ CanCall(c)
  /\ \E t \in Titles :
       LET u == UpdatePrompts(ai_prompts, LAMBDA r : TRUE, Clear) IN
         /\ ai_prompts' = u.tbl
         /\ pr' = Statement(c, Begin(c, "create", 0, t, TRUE, "insert"))
  /\ UNCHANGED << mainvars, calls, ctorvars, jobsvars, next_prompt_id, triagevars, analysisvars, analysevars, fn >>

\* create_ai_prompt without is_active: nothing is cleared.
create_ai_prompt_inactive(c) ==
  /\ CanCall(c)
  /\ \E t \in Titles :
       pr' = [ pr EXCEPT ![c] = Begin(c, "create", 0, t, FALSE, "insert") ]
  /\ UNCHANGED << mainvars, calls, ctorvars, jobsvars, ai_prompts,
                  next_prompt_id, triagevars, analysisvars, analysevars, fn >>

\* lines 1045-1052: INSERT INTO ai_prompts ...; return cursor.lastrowid.
create_insert(c) ==
  /\ pr[c].pc = "insert"
  /\ ai_prompts' = ai_prompts \cup
        { PromptRow(next_prompt_id, pr[c].title,
                    IF pr[c].is_active THEN 1 ELSE 0) }
  /\ next_prompt_id' = next_prompt_id + 1
  /\ pr' = Statement(c, [ pr[c] EXCEPT !.pc = "done", !.ret = next_prompt_id ])
  /\ UNCHANGED << mainvars, calls, ctorvars, jobsvars, triagevars, analysisvars, analysevars, fn >>

\* update_ai_prompt lines 1113-1117 with is_active: clear the other rows.
update_ai_prompt(c) ==
  /\ CanCall(c)
  /\ \E p \in PromptIds : \E t \in Titles :
       LET u == UpdatePrompts(ai_prompts, LAMBDA r : r.id # p, Clear) IN
         /\ ai_prompts' = u.tbl
         /\ pr' = Statement(c, Begin(c, "update", p, t, TRUE, "write"))
  /\ UNCHANGED << mainvars, calls, ctorvars, jobsvars, next_prompt_id, triagevars, analysisvars, analysevars, fn >>

\* update_ai_prompt without is_active: nothing is cleared.
update_ai_prompt_inactive(c) ==
  /\ CanCall(c)
  /\ \E p \in PromptIds : \E t \in Titles :
       pr' = [ pr EXCEPT ![c] = Begin(c, "update", p, t, FALSE, "write") ]
  /\ UNCHANGED << mainvars, calls, ctorvars, jobsvars, ai_prompts,
                  next_prompt_id, triagevars, analysisvars, analysevars, fn >>

\* lines 1118-1127: UPDATE ... SET title=..., is_active=... WHERE id = p;
\* return rowcount > 0.
update_write(c) ==
  /\ pr[c].pc = "write"
  /\ LET u == UpdatePrompts(ai_prompts, LAMBDA r : r.id = pr[c].prompt_id,
                 LAMBDA r : [ r EXCEPT !.title = pr[c].title,
                                       !.is_active = IF pr[c].is_active
                                                     THEN 1 ELSE 0 ]) IN
       /\ ai_prompts' = u.tbl
       /\ pr' = Statement(c, [ pr[c] EXCEPT !.pc = "done",
                                            !.ret = IF u.rowcount > 0 THEN 1 ELSE 0 ])
  /\ UNCHANGED << mainvars, calls, ctorvars, jobsvars, next_prompt_id, triagevars, analysisvars, analysevars, fn >>

PromptsNext ==
  \E c \in Callers :
     \/ set_active_ai_prompt(c) \/ set_active_set(c)
     \/ create_ai_prompt(c) \/ create_ai_prompt_inactive(c) \/ create_insert(c)
     \/ update_ai_prompt(c) \/ update_ai_prompt_inactive(c) \/ update_write(c)

PromptsSpec == PromptsInit /\ [][PromptsNext]_vars


\* ------------------------------------------------------ triage tables
\* add_* / remove_* of favourites, applications and not_interested: each is
\* one autocommitted statement and returns rowcount > 0.
TriageInit == MainInit /\ IdleExcept("triage") /\ TriageIdle

TriageOthers == << mainvars, calls, ctorvars, jobsvars, promptvars, analysisvars,
                  analysevars, fn >>

add_favourite(job_id) ==
  /\ LET r == SidebandInsertIgnore(favourites, [ job_id |-> job_id ]) IN
       /\ favourites' = r.tbl
       /\ triage' = [ op |-> "add_favourite", job_id |-> job_id,
                      ret |-> r.rowcount > 0 ]
  /\ UNCHANGED << TriageOthers, applications, not_interested >>

remove_favourite(job_id) ==
  /\ LET r == SidebandDelete(favourites, job_id) IN
       /\ favourites' = r.tbl
       /\ triage' = [ op |-> "remove_favourite", job_id |-> job_id,
                      ret |-> r.rowcount > 0 ]
  /\ UNCHANGED << TriageOthers, applications, not_interested >>

add_application(job_id, notes) ==
  /\ LET r == SidebandInsertIgnore(applications,
                                   [ job_id |-> job_id, notes |-> notes ]) IN
       /\ applications' = r.tbl
       /\ triage' = [ op |-> "add_application", job_id |-> job_id,
                      ret |-> r.rowcount > 0 ]
  /\ UNCHANGED << TriageOthers, favourites, not_interested >>

remove_application(job_id) ==
  /\ LET r == SidebandDelete(applications, job_id) IN
       /\ applications' = r.tbl
       /\ triage' = [ op |-> "remove_application", job_id |-> job_id,
                      ret |-> r.rowcount > 0 ]
  /\ UNCHANGED << TriageOthers, favourites, not_interested >>

add_not_interested(job_id) ==
  /\ LET r == SidebandInsertIgnore(not_interested, [ job_id |-> job_id ]) IN
       /\ not_interested' = r.tbl
       /\ triage' = [ op |-> "add_not_interested", job_id |-> job_id,
                      ret |-> r.rowcount > 0 ]
  /\ UNCHANGED << TriageOthers, favourites, applications >>

remove_not_interested(job_id) ==
  /\ LET r == SidebandDelete(not_interested, job_id) IN
       /\ not_interested' = r.tbl
       /\ triage' = [ op |-> "remove_not_interested", job_id |-> job_id,
                      ret |-> r.rowcount > 0 ]
  /\ UNCHANGED << TriageOthers, favourites, applications >>

TriageNext ==
  \E j \in TriageJobs :
     \/ add_favourite(j) \/ remove_favourite(j)
     \/ \E n \in Notes : add_application(j, n)
     \/ remove_application(j)
     \/ add_not_interested(j) \/ remove_not_interested(j)

TriageSpec == TriageInit /\ [][TriageNext]_vars


\* -------------------------------------------------- save_ai_analysis calls
AnalysesInit == MainInit /\ IdleExcept("analyses") /\ AnalysesIdle

AnalysesOthers == << mainvars, calls, ctorvars, jobsvars, promptvars, triagevars,
                    analysevars, fn >>

\* What the model of a call returns as its analysis.
ResultOf(model) ==
  PyDict(<< << << "match_score" >>,
              PyInt(IF model = "llama3" THEN 7 ELSE 8) >> >>)

\* The database clock advances.
tick ==
  /\ now < MaxClock
  /\ now' = now + 1
  /\ UNCHANGED << AnalysesOthers, ai_analyses, next_analysis_id, an_calls,
                  nupserts >>

\* One save_ai_analysis(job_id, prompt_id, model, result) call.
save_ai_analysis_call(pair, model) ==
  /\ nupserts < MaxUpserts
  /\ LET r == save_ai_analysis(ai_analyses, next_analysis_id, now,
                               pair[1], pair[2], model, ResultOf(model)) IN
       /\ ai_analyses' = r.tbl
       /\ next_analysis_id' = r.auto_increment
       /\ an_calls' = Append(an_calls,
                             [ pair |-> pair, model |-> model,
                               result |-> ResultOf(model), at |-> now,
                               ret |-> r.analysis_id ])
  /\ nupserts' = nupserts + 1
  /\ UNCHANGED << AnalysesOthers, now >>

AnalysesNext ==
  \/ tick
  \/ \E pair \in AnalysisPairs : \E model \in AnalysisModels :
        save_ai_analysis_call(pair, model)

AnalysesSpec == AnalysesInit /\ [][AnalysesNext]_vars


\* ------------------------------------------- POST /api/ai-analyse, step by step
AnalyseOthers == << mainvars, calls, ctorvars, jobsvars, promptvars, triagevars,
                   fn >>

\* The job and the prompt the requests can name.
AnalyseInit ==
  /\ MainInit /\ PoolIdle /\ CtorIdle /\ TriageIdle /\ AnalysesIdle /\ AnalyseIdle
  /\ FnIdle
  /\ sj = [ c \in Callers |-> SjIdle ] /\ sj_returned = {}
  /\ pr = [ c \in Callers |-> PrIdle ] /\ next_prompt_id = 2
  /\ jobs_tbl = { [ job_id |-> "j1", url |-> "u1", title |-> "T", date |-> 1 ] }
  /\ ai_prompts = { [ id |-> 1, title |-> "a", model |-> "llama3", is_active |-> 1 ] }

\* bool(value) of a JSON value.
Truthy(val) ==
  CASE val.kind = "NoneType" -> FALSE
    [] val.kind = "bool" -> val.v
    [] val.kind = "int" -> val.v # 0
    [] OTHER -> val.v # <<>>

RECURSIVE Joined(_)
Joined(chars) == IF chars = <<>> THEN "" ELSE Head(chars) \o Joined(Tail(chars))

\* storage.get_job / storage.get_ai_prompt: the row, if any.
HasJob(job_id) == \E r \in jobs_tbl : r.job_id = job_id
HasPrompt(id) == \E r \in ai_prompts : r.id = id
PromptConfig(id) == CHOOSE r \in ai_prompts : r.id = id

\* A handler that returns: its status code; an uncaught exception is 500.
Reply(code) ==
  [ an EXCEPT !.pc = "done", !.code = code, !.analysis_id = 0 ]

\* The entry _log_llm_request / _log_llm_response composes.
LogEntry(log, job_id, prompt_id, model) ==
  [ log |-> log, job_id |-> job_id, prompt_id |-> prompt_id, model |-> model ]

LogAppend_discards(file, entry, opened) == file

\* Lines 204-208 and 242-246: the entry is appended to the file, or open()
\* or write() raises OSError, which is logged as a warning and swallowed.
LogAppend(file, entry, opened) == IF opened THEN Append(file, entry) ELSE file

\* Lines 1309-1347: the request is checked and the prompt logged.
analyse_begin(job_chars, prompt_id) ==
  /\ an.pc \in { "idle", "done" }
  /\ an.nrequests < MaxRequests
  /\ LET job_id == Joined(strip(job_chars))
         started == [ an EXCEPT !.nrequests = @ + 1, !.raw = <<>>,
                                !.job_id = job_id, !.prompt_id = 0,
                                !.model = "", !.written = {} ]
         back(code) == [ started EXCEPT !.pc = "done", !.code = code,
                                        !.analysis_id = 0 ]
     IN
       IF job_id = "" THEN an' = back(400) /\ UNCHANGED llm_log
       ELSE IF ~Truthy(prompt_id) THEN an' = back(400) /\ UNCHANGED llm_log
       ELSE IF ~HasJob(job_id) THEN an' = back(404) /\ UNCHANGED llm_log
       ELSE IF ~int(prompt_id).ok THEN an' = back(500) /\ UNCHANGED llm_log
       ELSE IF ~HasPrompt(int(prompt_id).value)
            THEN an' = back(404) /\ UNCHANGED llm_log
       ELSE IF PromptConfig(int(prompt_id).value).model = ""
            THEN an' = back(400) /\ UNCHANGED llm_log
       ELSE \E opened \in BOOLEAN :
            /\ an' = [ started EXCEPT
                         !.pc = "call", !.code = 0, !.analysis_id = 0,
                         !.prompt_id = int(prompt_id).value,
                         !.model = PromptConfig(int(prompt_id).value).model,
                         !.written = IF opened THEN { "request" } ELSE {} ]
            /\ llm_log' =
                 LogAppend(llm_log,
                           LogEntry("request", job_id, int(prompt_id).value,
                                    PromptConfig(int(prompt_id).value).model),
                           opened)
  /\ UNCHANGED << AnalyseOthers, analysisvars >>

\* Lines 1349-1354: the provider raises RuntimeError.
analyse_provider_error ==
  /\ an.pc = "call"
  /\ an' = Reply(502)
  /\ UNCHANGED << AnalyseOthers, analysisvars, llm_log >>

\* Line 1351: the provider's answer is not the JSON body the client reads;
\* the exception is none the handler catches.
analyse_provider_crash ==
  /\ an.pc = "call"
  /\ an' = Reply(500)
  /\ UNCHANGED << AnalyseOthers, analysisvars, llm_log >>

\* Lines 1351 and 1358-1364: the provider answers and the answer is logged.
analyse_provider_reply(raw) ==
  /\ an.pc = "call"
  /\ \E opened \in BOOLEAN :
       /\ an' = [ an EXCEPT !.pc = "parse", !.raw = raw,
                            !.written = IF opened THEN @ \cup { "response" } ELSE @ ]
       /\ llm_log' =
            LogAppend(llm_log,
                      LogEntry("response", an.job_id, an.prompt_id, an.model),
                      opened)
  /\ UNCHANGED << AnalyseOthers, analysisvars >>

\* Lines 1366-1408: extract, validate, persist, answer.
analyse_finish ==
  /\ an.pc = "parse"
  /\ LET r == Respond(an.raw) IN
       IF r.code # 200
       THEN /\ an' = Reply(r.code)
            /\ UNCHANGED << ai_analyses, next_analysis_id >>
       ELSE LET u == save_ai_analysis(ai_analyses, next_analysis_id, now,
                                      an.job_id, an.prompt_id, an.model, r.data)
            IN  /\ ai_analyses' = u.tbl
                /\ next_analysis_id' = u.auto_increment
                /\ an' = [ an EXCEPT !.pc = "done", !.code = 200,
                                     !.analysis_id = u.analysis_id ]
  /\ UNCHANGED << AnalyseOthers, now, an_calls, nupserts, llm_log >>

\* The database clock advances between the steps of a request.
analyse_tick ==
  /\ now < MaxClock
  /\ now' = now + 1
  /\ UNCHANGED << AnalyseOthers, ai_analyses, next_analysis_id, an_calls,
                  nupserts, analysevars, fn >>

AnalyseNext ==
  \/ \E j \in RequestJobIds : \E i \in DOMAIN RequestPromptIds :
        analyse_begin(j, RequestPromptIds[i])
  \/ analyse_provider_error
  \/ analyse_provider_crash
  \/ \E i \in DOMAIN Replies : analyse_provider_reply(Replies[i])
  \/ analyse_finish
  \/ analyse_tick

AnalyseSpec == AnalyseInit /\ [][AnalyseNext]_vars


\* ------------------------------------------------ _validate_analysis on its own
FnOthers == << mainvars, calls, ctorvars, jobsvars, promptvars, triagevars,
               analysisvars, analysevars >>

\* Replies to validate: FullAnalysis with its match_score and recommendation
\* replaced or removed, and some other fields removed, of the wrong kind or
\* empty.
ScoreValues ==
  << PyInt(0), PyInt(1), PyInt(10), PyInt(11), PyStr(<< "7" >>),
     PyStr(<< " ", "1", "0" >>), PyStr(<< "x" >>), PyNone, PyBool(TRUE),
     PyList(<<>>) >>
RecommendationValues ==
  << PyStr(Chars("apply")), PyStr(<< "A", "P", "P", "L", "Y", " " >>),
     PyStr(<< "M", "a", "y", "b", "e" >>), PyStr(<< "l", "a", "t", "e", "r" >>),
     PyInt(5), PyStr(<< " " >>) >>
DamagedFields == { "keywords", "job_description", "red_flags", "company_type" }
Damages == { "missing", "wrong", "empty" }

ExpectedOf(field) ==
  ANALYSIS_REQUIRED[CHOOSE i \in DOMAIN ANALYSIS_REQUIRED :
                      ANALYSIS_REQUIRED[i][1] = field][2]

Damaged(data, field, damage) ==
  CASE damage = "missing" -> Without(data, field)
    [] damage = "wrong" ->
         With(data, field,
              IF ExpectedOf(field) = "list" THEN PyStr(<< "x" >>) ELSE PyList(<<>>))
    [] damage = "empty" ->
         With(data, field,
              IF ExpectedOf(field) = "list" THEN PyList(<<>>) ELSE PyStr(<< " " >>))

RECURSIVE DamagedAll(_, _, _)
DamagedAll(data, fields, damage) ==
  IF fields = {} THEN data
  ELSE LET f == CHOOSE x \in fields : TRUE
       IN  DamagedAll(Damaged(data, f, damage), fields \ { f }, damage)

\* Index 0 stands for the field left out.
Ranged(data, field, values, i) ==
  IF i = 0 THEN Without(data, field) ELSE With(data, field, values[i])

ValidateInit ==
  /\ MainInit /\ IdleExcept("fn")
  /\ \E i \in 0..Len(ScoreValues) : \E j \in 0..Len(RecommendationValues) :
     \E fields \in SUBSET DamagedFields : \E damage \in Damages :
        fn = [ pc |-> "call",
               data |-> DamagedAll(Ranged(Ranged(FullAnalysis, "match_score",
                                                 ScoreValues, i),
                                          "recommendation", RecommendationValues, j),
                                   fields, damage) ]

\* errors = _validate_analysis(data)
validate ==
  /\ fn.pc = "call"
  /\ LET r == _validate_analysis(fn.data) IN
       fn' = [ pc |-> "done", data |-> fn.data, errors |-> r.errors,
               validated |-> r.data ]
  /\ UNCHANGED FnOthers

ValidateNext == validate

ValidateSpec == ValidateInit /\ [][ValidateNext]_vars


\* ------------------------------------------------------ _extract_json on its own
\* Provider texts: a JSON text or another body, bare, fenced or in braces,
\* between some prose.
ObjectA == << P("{"), Str(<< "a" >>), P(":"), WS, Num(1), P("}") >>
Bodies ==
  << ObjectA,
     << P("[") >> \o ObjectA \o << P("]") >>,
     << Num(42) >>,
     << Word("null") >>,
     << Str(<< "h", "i" >>) >>,
     << P("{"), Word("oops"), P("}") >>,
     << >>,
     << P("{"), Str(<< "a" >>), P(":"), WS >> \o ObjectA \o << P("}") >>,
     ObjectA \o << WS, Word("and"), WS >> \o ObjectA,
     << Word("Sorry") >> >>
Wrappings == { "bare", "fence", "json fence", "fence then fence", "braces" }
Wrapped(body, wrapping) ==
  CASE wrapping = "bare" -> body
    [] wrapping = "fence" -> << Fence, WS >> \o body \o << WS, Fence >>
    [] wrapping = "json fence" -> << Fence, Word("json"), WS >> \o body \o << Fence >>
    [] wrapping = "fence then fence" ->
         << Fence, WS >> \o body \o << Fence, WS, Fence >> \o ObjectA \o << Fence >>
    [] wrapping = "braces" -> << P("{") >> \o body \o << P("}") >>
Befores == << << >>, << WS >>, << Word("Here"), P(":"), WS >> >>
Afters == << << >>, << WS >>, << WS, Word("Bye") >>, << WS, P("}") >> >>

ExtractInit ==
  /\ MainInit /\ IdleExcept("fn")
  /\ \E b \in DOMAIN Bodies : \E w \in Wrappings :
     \E p \in DOMAIN Befores : \E q \in DOMAIN Afters :
        fn = [ pc |-> "call",
               text |-> Befores[p] \o Wrapped(Bodies[b], w) \o Afters[q] ]

\* _extract_json(text) returns or raises ValueError.
extract ==
  /\ fn.pc = "call"
  /\ fn' = [ pc |-> "done", text |-> fn.text, out |-> _extract_json(fn.text) ]
  /\ UNCHANGED FnOthers

ExtractNext == extract

ExtractSpec == ExtractInit /\ [][ExtractNext]_vars


\* -------------------------------------------------------- _call_model on its own
ModelStems ==
  << << "g", "p", "t", "-", "4", "o" >>,
     << "G", "P", "T", "-", "4" >>,
     << "g", "p", "t" >>,
     << "o", "1" >>,
     << "o", "3", "-", "m", "i", "n", "i" >>,
     << "O", "1", "x" >>,
     << "o" >>,
     << "o", "2" >>,
     << "c", "h", "a", "t", "g", "p", "t", "-", "4", "o" >>,
     << "C", "h", "a", "t", "G", "P", "T", "-", "x" >>,
     << "c", "h", "a", "t" >>,
     << "c", "l", "a", "u", "d", "e", "-", "3" >>,
     << "C", "l", "a", "u", "d", "e", "-", "3" >>,
     << "c", "l", "a", "u", "d", "e" >>,
     << "g", "e", "m", "i", "n", "i", "-", "p", "r", "o" >>,
     << "G", "E", "M", "I", "N", "I", "-", "1" >>,
     << "g", "e", "m", "i", "n", "i" >>,
     << "l", "l", "a", "m", "a", "3" >>,
     << >>,
     << "o", "w", "u", "i", ":", "g", "p", "t", "-", "4" >> >>
ModelHeads == << << >>, << "o", "w", "u", "i", ":" >>, << "O", "W", "U", "I", ":" >>, << "x" >> >>

RouteInit ==
  /\ MainInit /\ IdleExcept("fn")
  /\ \E h \in DOMAIN ModelHeads : \E t \in DOMAIN ModelStems :
        fn = [ pc |-> "call", model |-> ModelHeads[h] \o ModelStems[t] ]

\* _call_model(model, messages)
route ==
  /\ fn.pc = "call"
  /\ fn' = [ pc |-> "done", model |-> fn.model, out |-> _call_model(fn.model) ]
  /\ UNCHANGED FnOthers

RouteNext == route

RouteSpec == RouteInit /\ [][RouteNext]_vars


\* ------------------------------------------------------- adapters
\* Python None where an amount is optional.
NoAmount == 0 - 1
Amount(value) == value # NoAmount /\ value # 0

\* BaseSource._safe_float: None for a missing, empty, unparsable or
\* non-positive value.
_safe_float(value) == IF value = NoAmount \/ value <= 0 THEN NoAmount ELSE value

\* Keywords are sequences of characters.
RECURSIVE StrippedNonBlank(_)
StrippedNonBlank(keywords) ==
  IF keywords = <<>> THEN <<>>
  ELSE IF Head(keywords) # <<>> /\ strip(Head(keywords)) # <<>>
       THEN << strip(Head(keywords)) >> \o StrippedNonBlank(Tail(keywords))
       ELSE StrippedNonBlank(Tail(keywords))

\* base.normalize_keywords(keywords, default); the default ["job"] stands
\* for default=None.
normalize_keywords(keywords, default) ==
  IF StrippedNonBlank(keywords) # <<>> THEN StrippedNonBlank(keywords) ELSE default

DefaultKeywords == << << "j", "o", "b" >> >>

\* BaseSource._matches_keywords on a text given as its set of words, for
\* one-word keywords: no keywords match everything, blank keywords nothing.
RECURSIVE AnyKeywordIn(_, _)
AnyKeywordIn(words, keywords) ==
  IF keywords = <<>> THEN FALSE
  ELSE IF strip(Head(keywords)) # <<>>
          /\ Joined(lower(strip(Head(keywords)))) \in words
       THEN TRUE
       ELSE AnyKeywordIn(words, Tail(keywords))

_matches_keywords(words, keywords) ==
  IF keywords = <<>> THEN TRUE ELSE AnyKeywordIn(words, keywords)

\* The record an adapter builds from a listing.
AdapterJob(source, item, s_max) ==
  [ source |-> source, url |-> item.url, salary_max |-> s_max ]

\* `if salary_min and s_max and s_max < salary_min: continue`
SalaryTooLow(salary_min, s_max) ==
  Amount(salary_min) /\ Amount(s_max) /\ s_max < salary_min

\* What the provider answers to a search for a term.
Answer(payload, term) ==
  IF term \in DOMAIN payload THEN payload[term] ELSE payload["*"]

\* AdzunaSource.fetch_jobs lines 83-132: the results of one page.
RECURSIVE AdzunaItems(_, _, _, _, _)
AdzunaItems(results, jobs, seen_urls, jobs_before_keyword, max_results) ==
  IF results = <<>> THEN [ jobs |-> jobs, seen_urls |-> seen_urls ]
  ELSE LET item == Head(results) IN
    IF Len(jobs) - jobs_before_keyword >= max_results
    THEN [ jobs |-> jobs, seen_urls |-> seen_urls ]
    ELSE IF item.url # "" /\ item.url \in seen_urls
    THEN AdzunaItems(Tail(results), jobs, seen_urls, jobs_before_keyword,
                     max_results)
    ELSE AdzunaItems(Tail(results),
                     Append(jobs, AdapterJob("Adzuna", item,
                                             _safe_float(item.salary_max))),
                     seen_urls \cup ({ item.url } \ { "" }),
                     jobs_before_keyword, max_results)

\* Lines 49-81: one keyword after the other; max(1, max_results // 50) pages
\* each, which is one page for max_results below 100.  salary_min only
\* goes into the query.
RECURSIVE AdzunaKeywords(_, _, _, _, _)
AdzunaKeywords(keywords_list, payload, jobs, seen_urls, max_results) ==
  IF keywords_list = <<>> THEN jobs
  ELSE LET results == Answer(payload, Joined(Head(keywords_list)))
           r == IF Len(jobs) - Len(jobs) >= max_results
                THEN [ jobs |-> jobs, seen_urls |-> seen_urls ]
                ELSE AdzunaItems(results, jobs, seen_urls, Len(jobs), max_results)
       IN  AdzunaKeywords(Tail(keywords_list), payload, r.jobs, r.seen_urls,
                          max_results)

\* AdzunaSource.fetch_jobs
AdzunaSource_fetch_jobs(keywords, salary_min, max_results, payload) ==
  [ jobs |-> AdzunaKeywords(normalize_keywords(keywords, DefaultKeywords),
                            payload, <<>>, {}, max_results),
    batches |-> <<>>, raised |-> "" ]

\* LeverSource.fetch_jobs lines 138-193: the postings of one board.
RECURSIVE LeverItems(_, _, _, _, _, _, _)
LeverItems(data, board, found, batch, keywords, salary_min, max_results) ==
  IF data = <<>> THEN batch
  ELSE LET item == Head(data) IN
    IF Len(found) + Len(batch) >= max_results THEN batch
    ELSE IF ~_matches_keywords(item.words \cup { board }, keywords)
    THEN LeverItems(Tail(data), board, found, batch, keywords, salary_min,
                    max_results)
    ELSE IF SalaryTooLow(salary_min, _safe_float(item.salary_max))
    THEN LeverItems(Tail(data), board, found, batch, keywords, salary_min,
                    max_results)
    ELSE LeverItems(Tail(data), board, found,
                    Append(batch, AdapterJob("Lever", item,
                                             _safe_float(item.salary_max))),
                    keywords, salary_min, max_results)

\* Lines 123-197: one board after the other, each board's jobs delivered
\* through on_batch.
RECURSIVE LeverBoards(_, _, _, _, _, _, _)
LeverBoards(boards, payload, found, batches, keywords, salary_min, max_results) ==
  IF boards = <<>> \/ Len(found) >= max_results
  THEN [ jobs |-> found, batches |-> batches, raised |-> "" ]
  ELSE LET batch == LeverItems(Answer(payload, Head(boards)), Head(boards),
                               found, <<>>, keywords, salary_min, max_results)
       IN  LeverBoards(Tail(boards), payload, found \o batch,
                       IF batch # <<>> THEN Append(batches, batch) ELSE batches,
                       keywords, salary_min, max_results)

\* The boards Lever is configured to read.
LeverBoardNames == << "a", "b" >>

\* LeverSource.fetch_jobs
LeverSource_fetch_jobs(keywords, salary_min, max_results, payload) ==
  LeverBoards(LeverBoardNames, payload, <<>>, <<>>, keywords, salary_min,
              max_results)

\* JobSpySource.fetch_jobs lines 142-190: the rows of one scrape.
RECURSIVE JobSpyRows(_, _, _, _, _, _)
JobSpyRows(rows, found, seen_urls, jobs_before_keyword, salary_min, max_results) ==
  IF rows = <<>> THEN [ jobs |-> found, seen_urls |-> seen_urls ]
  ELSE LET row == Head(rows) IN
    IF Len(found) - jobs_before_keyword >= max_results
    THEN [ jobs |-> found, seen_urls |-> seen_urls ]
    ELSE IF row.url # "" /\ row.url \in seen_urls
    THEN JobSpyRows(Tail(rows), found, seen_urls, jobs_before_keyword,
                    salary_min, max_results)
    ELSE IF SalaryTooLow(salary_min, _safe_float(row.salary_max))
    THEN JobSpyRows(Tail(rows), found, seen_urls \cup ({ row.url } \ { "" }),
                    jobs_before_keyword, salary_min, max_results)
    ELSE JobSpyRows(Tail(rows),
                    Append(found, AdapterJob("JobSpy", row,
                                                _safe_float(row.salary_max))),
                    seen_urls \cup ({ row.url } \ { "" }),
                    jobs_before_keyword, salary_min, max_results)

\* Lines 89-194: one scrape per keyword as given (one country configured).
RECURSIVE JobSpyKeywords(_, _, _, _, _, _)
JobSpyKeywords(keywords, payload, found, seen_urls, salary_min, max_results) ==
  IF keywords = <<>> THEN found
  ELSE LET r == JobSpyRows(Answer(payload, Joined(Head(keywords))), found,
                           seen_urls, Len(found), salary_min, max_results)
       IN  JobSpyKeywords(Tail(keywords), payload, r.jobs, r.seen_urls,
                          salary_min, max_results)

\* JobSpySource.fetch_jobs
JobSpySource_fetch_jobs(keywords, salary_min, max_results, payload) ==
  [ jobs |-> JobSpyKeywords(keywords, payload, <<>>, {}, salary_min, max_results),
    batches |-> <<>>, raised |-> "" ]

\* RemotiveSource._parse_salary_string on the numbers found in the text:
\* numbers below 1000 are thousands; the pair (min, max) or (None, None).
Thousands(v) == IF v < 1000 THEN v * 1000 ELSE v
_parse_salary_string(numbers) ==
  IF numbers = <<>> THEN << NoAmount, NoAmount >>
  ELSE LET vals == { Thousands(numbers[i]) : i \in DOMAIN numbers } IN
    IF Len(numbers) >= 2 THEN << Min(vals), Max(vals) >>
    ELSE << Thousands(numbers[1]), Thousands(numbers[1]) >>

\* The local variable `item` before the first listing is iterated.
Unbound == [ url |-> "?unbound" ]

\* RemotiveSource.fetch_jobs lines 92-94: the loop over the listings, whose
\* body is the break test alone; it leaves `item` at the listing it stopped
\* on.
RECURSIVE RemotiveLoop(_, _, _, _, _)
RemotiveLoop(listings, item, jobs, jobs_before_keyword, max_results) ==
  IF listings = <<>> THEN item
  ELSE IF Len(jobs) - jobs_before_keyword >= max_results THEN Head(listings)
  ELSE RemotiveLoop(Tail(listings), Head(listings), jobs, jobs_before_keyword,
                    max_results)

\* Lines 65-131: per keyword, the request, the loop, then once per keyword
\* the statements that read `item`.
RECURSIVE RemotiveKeywords(_, _, _, _, _, _, _)
RemotiveKeywords(keywords_list, payload, item, jobs, keywords, salary_min, max_results) ==
  IF keywords_list = <<>> THEN [ jobs |-> jobs, batches |-> <<>>, raised |-> "" ]
  ELSE LET listings == Answer(payload, Joined(Head(keywords_list)))
           last == RemotiveLoop(listings, item, jobs, Len(jobs), max_results)
       IN
    IF last = Unbound
    THEN [ jobs |-> <<>>, batches |-> <<>>, raised |-> "UnboundLocalError" ]
    ELSE IF SalaryTooLow(salary_min, _parse_salary_string(last.salary)[2])
    THEN RemotiveKeywords(Tail(keywords_list), payload, last, jobs, keywords,
                          salary_min, max_results)
    ELSE IF ~_matches_keywords(last.words, keywords)
    THEN RemotiveKeywords(Tail(keywords_list), payload, last, jobs, keywords,
                          salary_min, max_results)
    ELSE RemotiveKeywords(Tail(keywords_list), payload, last,
                          Append(jobs, AdapterJob("Remotive", last,
                                                  _parse_salary_string(last.salary)[2])),
                          keywords, salary_min, max_results)

\* RemotiveSource.fetch_jobs (remote = "Any")
RemotiveSource_fetch_jobs(keywords, salary_min, max_results, payload) ==
  RemotiveKeywords(normalize_keywords(keywords, << << >> >>), payload, Unbound,
                   <<>>, keywords, salary_min, max_results)

\* --------------------------------------------- fetch_jobs, adapter by adapter
\* str.split(",") on a text given as a sequence of characters.
RECURSIVE SplitFrom(_, _)
SplitFrom(chars, part) ==
  IF chars = <<>> THEN << part >>
  ELSE IF Head(chars) = "," THEN << part >> \o SplitFrom(Tail(chars), <<>>)
  ELSE SplitFrom(Tail(chars), Append(part, Head(chars)))

split(chars) == SplitFrom(chars, <<>>)

\* api_start_search lines 687-695: the keyword list handed to
\* manager.start_search, which passes it to every adapter as it is.
api_start_search_keywords(keywords_raw) ==
  LET keywords == IF keywords_raw.kind = "str"
                  THEN StrippedNonBlank(split(keywords_raw.v))
                  ELSE keywords_raw.v
  IN  IF keywords = <<>> THEN DefaultKeywords ELSE keywords

\* The "keywords" field of a search request: a text or a list of texts.
KeywordsSent ==
  << [ kind |-> "list", v |-> << >> ],
     [ kind |-> "list", v |-> << << "a" >> >> ],
     [ kind |-> "list", v |-> << << "a" >>, << "b" >> >> ],
     [ kind |-> "list", v |-> << << " " >> >> ],
     [ kind |-> "list", v |-> << << >>, << " ", " " >> >> ],
     [ kind |-> "list", v |-> << << " ", "B", " " >> >> ],
     [ kind |-> "str", v |-> << >> ],
     [ kind |-> "str", v |-> << " ", ",", " " >> ],
     [ kind |-> "str", v |-> << "a", ",", " ", "b" >> ],
     [ kind |-> "str", v |-> << "b" >> ] >>

SalaryMins == { NoAmount, 60000 }
MaxResultsSent == { 1, 2 }

\* Listings a provider may return; the salary is a number field for the
\* JSON providers and the numbers of a text for Remotive.
Item1 == [ url |-> "u1", salary_max |-> 40000, salary |-> << 40 >>,
           words |-> { "a" } ]
Item2 == [ url |-> "u2", salary_max |-> NoAmount, salary |-> << >>,
           words |-> { "a", "b" } ]
Item3 == [ url |-> "u3", salary_max |-> 80000, salary |-> << 60, 80 >>,
           words |-> { "b" } ]
Listings ==
  { << >>, << Item1 >>, << Item2, Item3 >>, << Item3, Item1 >>,
    << Item1, Item2, Item3 >> }
Payloads == [ { "a", "b", "*" } -> Listings ]

FetchInit ==
  /\ MainInit /\ IdleExcept("fn")
  /\ \E k \in DOMAIN KeywordsSent : \E s \in SalaryMins :
     \E n \in MaxResultsSent : \E p \in Payloads :
        fn = [ pc |-> "request", keywords_raw |-> KeywordsSent[k],
               salary_min |-> s, max_results |-> n, payload |-> p ]

\* api_start_search: the request's keywords become the list every adapter
\* is called with.
fetch_request ==
  /\ fn.pc = "request"
  /\ fn' = [ pc |-> "dispatch", keywords_raw |-> fn.keywords_raw,
             keywords |-> api_start_search_keywords(fn.keywords_raw),
             salary_min |-> fn.salary_min, max_results |-> fn.max_results,
             payload |-> fn.payload ]
  /\ UNCHANGED FnOthers

Fetched(adapter, terms, out) ==
  [ pc |-> "done", keywords_raw |-> fn.keywords_raw, keywords |-> fn.keywords,
    salary_min |-> fn.salary_min, max_results |-> fn.max_results,
    payload |-> fn.payload, adapter |-> adapter, terms |-> terms, out |-> out ]

\* AdzunaSource.fetch_jobs; it searches the normalised keywords.
fetch_adzuna ==
  /\ fn.pc = "dispatch"
  /\ fn' = Fetched("Adzuna", normalize_keywords(fn.keywords, DefaultKeywords),
                   AdzunaSource_fetch_jobs(fn.keywords, fn.salary_min,
                                           fn.max_results, fn.payload))
  /\ UNCHANGED FnOthers

\* LeverSource.fetch_jobs; it filters its boards by the keywords as given.
fetch_lever ==
  /\ fn.pc = "dispatch"
  /\ fn' = Fetched("Lever", fn.keywords,
                   LeverSource_fetch_jobs(fn.keywords, fn.salary_min,
                                          fn.max_results, fn.payload))
  /\ UNCHANGED FnOthers

\* JobSpySource.fetch_jobs; it searches the keywords as given.
fetch_jobspy ==
  /\ fn.pc = "dispatch"
  /\ fn' = Fetched("JobSpy", fn.keywords,
                   JobSpySource_fetch_jobs(fn.keywords, fn.salary_min,
                                           fn.max_results, fn.payload))
  /\ UNCHANGED FnOthers

\* RemotiveSource.fetch_jobs; it searches the normalised keywords, the
\* empty term when none is left.
fetch_remotive ==
  /\ fn.pc = "dispatch"
  /\ fn' = Fetched("Remotive", normalize_keywords(fn.keywords, << << >> >>),
                   RemotiveSource_fetch_jobs(fn.keywords, fn.salary_min,
                                             fn.max_results, fn.payload))
  /\ UNCHANGED FnOthers

FetchNext ==
  \/ fetch_request
  \/ fetch_adzuna
  \/ fetch_lever
  \/ fetch_jobspy
  \/ fetch_remotive

FetchSpec == FetchInit /\ [][FetchNext]_vars

\* ---------------------------------------------------------------- claims
Act == Range(active)
Done == opc = "done"
Raised(s) == future[s].done /\ future[s].error # ""
Returned(s) == future[s].done /\ future[s].error = ""
Phase(s) == source_status[s].status

RECURSIVE Delivered(_)
\* Number of records the sources in S handed over, by batch or in bulk.
Delivered(S) ==
  IF S = {} THEN 0
  ELSE LET s == CHOOSE x \in S : TRUE IN Len(passed[s]) + Delivered(S \ { s })

C2_AdaptersAcceptCall ==
  \A s \in DOMAIN source_status :
     Phase(s) = "error" => source_status[s].error # TypeErrorMsg

\* C3: whenever cancel_search returned True, the final status of the task
\* (one that had sources to run) is cancelled, it never ends as completed,
\* under every interleaving.
C3_CancelTrueEndsCancelled ==
  (Done /\ cancel_ok /\ total_sources > 0) => status = "cancelled"

\* C4: when the task is completed, no storage call failed (and no adapter
\* failed), jobs_found is the number of records the adapters delivered by
\* batch or in bulk and new_jobs_saved is the sum of the save_jobs return
\* values: no increment is lost.
C4_NoLostIncrement ==
  (Done /\ status = "completed" /\ ~storage_failed
        /\ \A s \in Act : Returned(s))
  => /\ jobs_found = Delivered(Act)
     /\ new_jobs_saved = saved_sum

\* C5: in a task that is not cancelled, every adapter that returned has its
\* records passed to save_jobs and added to jobs_found exactly once: by its
\* batches when it delivered a non-empty batch, else by one bulk save of its
\* return value; never by both paths, never by neither.
C5_ExactlyOnePath ==
  (Done /\ status = "completed")
  => \A s \in Act :
       Returned(s) =>
         /\ passed[s] = future[s].results
         /\ counted[s] = Len(future[s].results)
         /\ paths[s] = IF w_n[s] > 0 THEN { "batch" } ELSE { "bulk" }

C5_Witness ==
  /\ Done /\ status = "completed"
  /\ \E s, t \in Act :
       /\ Returned(s) /\ w_n[s] > 0 /\ Len(passed[s]) = 2
       /\ Returned(t) /\ w_n[t] = 0 /\ Len(passed[t]) = 2

\* The scenario of C6: two adapters, each returns exactly one record, both
\* records carry the URL u1, the table held neither (it starts empty).
SameUrlTwice ==
  /\ Done /\ status = "completed" /\ Len(active) = 2 /\ storage_up
  /\ \A s \in Act : Returned(s) /\ future[s].results = << "u1" >>

\* C6 as claimed: in that scenario jobs_found = 2 and new_jobs_saved = 1.
C6_SameUrlSavedOnce ==
  SameUrlTwice => (jobs_found = 2 /\ new_jobs_saved = 1)

\* C6 as amended: when both records reach storage through the bulk save,
\* jobs_found = 2 and new_jobs_saved = 2, because the job_id is computed
\* from source and url and each adapter stamps its own name as source.
C6_SameUrlTwoRows ==
  (SameUrlTwice /\ \A s \in Act : ~future[s].used_batch)
  => (jobs_found = 2 /\ new_jobs_saved = 2 /\ Cardinality(db) = 2)

C6_Witness ==
  /\ SameUrlTwice /\ \A s \in Act : paths[s] = { "bulk" }
  /\ db = { Job("Remotive", "u1", "t", "c").job_id,
            Job("Arbeitnow", "u1", "t", "c").job_id }

\* C7: status only moves pending -> running -> completed | failed |
\* cancelled; it has left pending before any adapter call is submitted or
\* started, and a final status never changes, whatever calls follow.
C7_StatusLifecycle ==
  [][ /\ status' # status =>
           << status, status' >> \in
              { << "pending", "running" >>, << "running", "completed" >>,
                << "running", "failed" >>, << "running", "cancelled" >> }
      /\ (\E s \in Pool : wpc'[s] # "none") => status' # "pending"
    ]_vars

C7_Witness ==
  /\ Done /\ status = "completed" /\ cancel_ok /\ cancelled

\* C8: with at least one active source, every adapter call ending and no
\* cancel_search call, the task reaches status completed, also after adapter
\* or storage errors, with completed_sources = total_sources, finished_at
\* set and every source's phase completed or error.
C8_EventuallyCompleted ==
  (opc = "wait") ~>
     [] ( /\ status = "completed"
          /\ completed_sources = total_sources
          /\ finished_at # 0
          /\ \A s \in Act : Phase(s) \in { "completed", "error" } )

C8_Witness ==
  /\ Done /\ status = "completed" /\ Len(errors) >= 2
  /\ \E s \in Act : Phase(s) = "error"
  /\ storage_failed

C10_CancelledTaskIsFrozen ==
  [][ status = "cancelled" =>
        UNCHANGED << completed_sources, jobs_found, new_jobs_saved, errors,
                     source_results >> ]_vars

\* C11: when no source is left after deduplication, the LinkedIn elision and
\* the is_available filter, the task ends failed with total_sources = 0, one
\* error string and finished_at set; no adapter's fetch_jobs was invoked and
\* nothing was saved.
NoSourceLeft ==
  \A i \in DOMAIN request :
     \/ request[i] \notin Range(ALL_SOURCES)
     \/ ~is_available(request[i], config)
     \/ request[i] = "LinkedIn" /\ "JobSpy" \in Range(request)

C11_NoSourcesFails ==
  (Done /\ NoSourceLeft) =>
     /\ status = "failed" /\ total_sources = 0
     /\ Len(errors) = 1 /\ finished_at # 0
     /\ \A s \in Pool : wpc[s] = "none" /\ ~future[s].done
     /\ db = {} /\ jobs_found = 0 /\ new_jobs_saved = 0 /\ saved_sum = 0

\* A finished run in which only the elision emptied the list: LinkedIn was
\* available, JobSpy was not.
C11_Witness ==
  /\ Done /\ request = << "LinkedIn", "JobSpy" >> /\ config = { "LinkedIn" }
  /\ status = "failed" /\ errors = << NoSourcesError >>

\* C12: the adapters run are the requested names (all registered ones when
\* none is requested), each once in order of first occurrence, without
\* LinkedIn when JobSpy is among the requested names, without unregistered
\* names and without unavailable adapters; total_sources is their number and
\* fetch_jobs is invoked exactly once on each of them and on no other.
Registered == Range(ALL_SOURCES)
Requested == IF request = <<>> THEN ALL_SOURCES ELSE request
FirstAt(n) == CHOOSE i \in DOMAIN Requested :
                 Requested[i] = n /\ \A j \in 1..(i - 1) : Requested[j] # n
Expected ==
  LET req == Range(Requested)
      elide == "JobSpy" \in req
  IN  { n \in req \cap Registered :
           is_available(n, config) /\ ~(n = "LinkedIn" /\ elide) }

Selected == opc \in { "fail", "fail_fin", "wait", "done" }

C12_AdaptersRun ==
  LET exp == Expected
  IN  /\ \A n \in Registered : calls[n] <= (IF n \in exp THEN 1 ELSE 0)
      /\ Selected =>
           /\ Range(active) = exp
           /\ Len(active) = Cardinality(exp)
           /\ \A i \in 1..(Len(active) - 1) :
                 FirstAt(active[i]) < FirstAt(active[i + 1])
           /\ total_sources = Cardinality(exp)
      /\ Done => \A n \in exp : calls[n] = 1

\* Finished runs of each kind: none requested (LinkedIn elided, JobSpy
\* available), a repeated name, LinkedIn kept when JobSpy is not requested.
C12_Witness ==
  /\ Done /\ request = <<>> /\ config = { "JobSpy", "LinkedIn" }
  /\ Len(active) = 20 /\ calls["JobSpy"] = 1 /\ calls["LinkedIn"] = 0

\* C13: at most 4 adapters of one task execute fetch_jobs at any moment,
\* however many sources are active.
C13_AtMostFourRunning == Cardinality(PoolRunning) <= 4

\* Four calls executing while submitted calls still wait for a thread.
C13_Witness ==
  /\ Cardinality(PoolRunning) = 4
  /\ \E s \in Range(active) : source_status[s].status = "pending"

\* C15: without an explicit job_id, two records of the same source and the
\* same non-empty url have the same job_id whatever their other fields; with
\* an empty url the job_id is determined by (source, title, company) alone;
\* a job_id supplied by the caller is kept unchanged.
Built == ctor_jobs # <<>>
NoExplicitId(i) == ctor_args[i].job_id = ""

C15_JobIdDeterminedByKey ==
  Built =>
    /\ ( /\ NoExplicitId(1) /\ NoExplicitId(2)
         /\ ctor_args[1].source = ctor_args[2].source
         /\ ctor_args[1].url = ctor_args[2].url
         /\ \/ ctor_args[1].url # ""
            \/ /\ ctor_args[1].title = ctor_args[2].title
               /\ ctor_args[1].company = ctor_args[2].company )
       => ctor_jobs[1].job_id = ctor_jobs[2].job_id
    /\ \A i \in 1..2 :
         ~NoExplicitId(i) => ctor_jobs[i].job_id = ctor_args[i].job_id

\* Two records of one source and url that differ in every other field.
C15_Witness ==
  /\ Built /\ NoExplicitId(1) /\ NoExplicitId(2)
  /\ ctor_args[1].source = ctor_args[2].source
  /\ ctor_args[1].url = "u" /\ ctor_args[2].url = "u"
  /\ ctor_args[1].title # ctor_args[2].title
  /\ ctor_args[1].company # ctor_args[2].company
  /\ ctor_args[1].description # ctor_args[2].description
  /\ ctor_jobs[1].job_id = ctor_jobs[2].job_id

\* C14: save_jobs inserts if absent, under any sequence and interleaving of
\* calls: a call adds one row for each submitted job_id that has none, no
\* statement changes or removes a stored row (a later record of the same
\* job_id leaves the row as first written), the table holds one row per
\* job_id, the call returns the number of rows it added, and a call that
\* repeats a batch whose call has returned returns 0.
RowIds == { r.job_id : r \in jobs_tbl }
SubmittedIds(c) == { sj[c].rows[i].job_id : i \in DOMAIN sj[c].rows }

C14_InsertIfAbsent ==
  /\ [](\A r1 \in jobs_tbl : \A r2 \in jobs_tbl :
          r1.job_id = r2.job_id => r1 = r2)
  /\ [](\A c \in Callers :
          sj[c].pc = "done" =>
             /\ SubmittedIds(c) \subseteq RowIds
             /\ sj[c].ret = sj[c].added
             /\ sj[c].repeat => sj[c].ret = 0)
  /\ [][ /\ jobs_tbl \subseteq jobs_tbl'
         /\ \A c \in Callers :
              sj_execute(c) =>
                 Cardinality(jobs_tbl') - Cardinality(jobs_tbl) =
                    (IF sj[c].rows[sj[c].i].job_id \in RowIds THEN 0 ELSE 1)
       ]_vars

\* A call returned 0 for a record whose job_id another caller had stored
\* with an older date_scraped and another title; the first row is still there.
C14_Witness ==
  \E c \in Callers :
     /\ sj[c].pc = "done" /\ sj[c].ret = 1
     /\ sj[c].rows = << SavedJob("u", "t2", 2), SavedJob("v", "t", 2) >>
     /\ SavedJob("u", "t", 1) \in jobs_tbl
     /\ SavedJob("v", "t", 2) \in jobs_tbl

\* C16: in every reachable state, intermediate states and all interleavings
\* of concurrent set_active_ai_prompt, create_ai_prompt(is_active) and
\* update_ai_prompt(is_active) included, at most one ai_prompts row is active.
ActivePrompts == { r \in ai_prompts : r.is_active = 1 }

C16_AtMostOneActive == Cardinality(ActivePrompts) <= 1

\* C17: when a set_active_ai_prompt(p) call that ran on its own completes,
\* exactly one row is active and it is row p, whatever the table held before
\* and whatever id p is.
C17_SetActiveLeavesExactlyP ==
  [][ \A c \in Callers :
        (set_active_set(c) /\ pr[c].alone) =>
           /\ Cardinality(ActivePrompts') = 1
           /\ \A r \in ActivePrompts' : r.id = pr[c].prompt_id ]_vars

\* C19: on each of favourites, applications and not_interested, add(j)
\* returns true iff j was not in the table and leaves it there, remove(j)
\* returns true iff j was in the table and leaves it absent, so that a
\* repeated add or remove returns false and changes nothing; neither call
\* changes the other two tables.
Ids(tbl) == { r.job_id : r \in tbl }

AddedTo(tbl, tbl2, j) ==
  /\ triage'.ret = (j \notin Ids(tbl))
  /\ j \in Ids(tbl2)
  /\ { r \in tbl2 : r.job_id # j } = { r \in tbl : r.job_id # j }
  /\ j \in Ids(tbl) => tbl2 = tbl

RemovedFrom(tbl, tbl2, j) ==
  /\ triage'.ret = (j \in Ids(tbl))
  /\ tbl2 = { r \in tbl : r.job_id # j }

C19_AddRemove ==
  [][ \A j \in TriageJobs :
        /\ add_favourite(j) =>
              /\ AddedTo(favourites, favourites', j)
              /\ UNCHANGED << applications, not_interested >>
        /\ remove_favourite(j) =>
              /\ RemovedFrom(favourites, favourites', j)
              /\ UNCHANGED << applications, not_interested >>
        /\ (\E n \in Notes : add_application(j, n)) =>
              /\ AddedTo(applications, applications', j)
              /\ UNCHANGED << favourites, not_interested >>
        /\ remove_application(j) =>
              /\ RemovedFrom(applications, applications', j)
              /\ UNCHANGED << favourites, not_interested >>
        /\ add_not_interested(j) =>
              /\ AddedTo(not_interested, not_interested', j)
              /\ UNCHANGED << favourites, applications >>
        /\ remove_not_interested(j) =>
              /\ RemovedFrom(not_interested, not_interested', j)
              /\ UNCHANGED << favourites, applications >>
    ]_vars

\* A repeated add_application has just returned false and left the stored
\* notes alone, with the job in favourites and another in not_interested.
C19_Witness ==
  /\ triage = [ op |-> "add_application", job_id |-> "j1", ret |-> FALSE ]
  /\ [ job_id |-> "j1", notes |-> "n" ] \in applications
  /\ "j1" \in Ids(favourites) /\ "j1" \notin Ids(not_interested)
  /\ "j2" \in Ids(not_interested)

\* C18: after any sequence of save_ai_analysis calls there is exactly one
\* ai_analyses row for every (job_id, prompt_id) pair ever saved and none for
\* another pair; the row holds the model, the result and the created_at of
\* the last call for its pair; every call for one pair returned the same
\* analysis id; a call leaves the rows of the other pairs unchanged.
CallsFor(pair) == { i \in DOMAIN an_calls : an_calls[i].pair = pair }
LastCall(pair) ==
  an_calls[CHOOSE i \in CallsFor(pair) : \A j \in CallsFor(pair) : j <= i]
RowsOf(pair) ==
  { r \in ai_analyses : r.job_id = pair[1] /\ r.prompt_id = pair[2] }

C18_OneRowPerPair ==
  /\ [](\A pair \in AnalysisPairs :
          IF CallsFor(pair) = {} THEN RowsOf(pair) = {}
          ELSE /\ Cardinality(RowsOf(pair)) = 1
               /\ \A r \in RowsOf(pair) :
                     /\ r.model = LastCall(pair).model
                     /\ json_loads(r.result).ok
                     /\ json_loads(r.result).value = LastCall(pair).result
                     /\ r.created_at = LastCall(pair).at
                     /\ \A i \in CallsFor(pair) : an_calls[i].ret = r.id)
  /\ [][ \A pair \in AnalysisPairs : \A model \in AnalysisModels :
           save_ai_analysis_call(pair, model) =>
              \A other \in AnalysisPairs \ { pair } :
                 RowsOf(other)' = RowsOf(other) ]_vars

\* Three calls for one pair at three times with alternating models: one row,
\* next to the untouched row of another pair.
C18_Witness ==
  /\ Len(an_calls) = 3
  /\ an_calls[1].pair = << "j1", 2 >> /\ an_calls[1].at = 0
  /\ an_calls[2].pair = << "j1", 1 >> /\ an_calls[2].model = "llama3"
  /\ an_calls[3].pair = << "j1", 1 >> /\ an_calls[3].model = "owui:gpt-4o"
  /\ an_calls[2].at = 1 /\ an_calls[3].at = 2
  /\ Cardinality(ai_analyses) = 2

\* ---- C20 ----
\* POST /api/ai-analyse stores an analysis row exactly when the provider
\* answered, JSON was extracted from the answer and validation returned no
\* violation: then the row of (job_id, prompt_id) holds the validated
\* analysis and the answer is 200.  A request that ends in any other way,
\* and every step before the last, leaves ai_analyses as it was.
Ends == an.pc # "done" /\ an'.pc = "done"
Upserted == an'.analysis_id # 0
Usable(raw) ==
  /\ _extract_json(raw).ok
  /\ ~_validate_analysis(_extract_json(raw).value).raised
  /\ _validate_analysis(_extract_json(raw).value).errors = <<>>
C20_UpsertOnlyOnSuccess ==
  [][ /\ ~Ends => ai_analyses' = ai_analyses
      /\ Ends =>
           /\ Upserted <=> (an.pc = "parse" /\ Usable(an.raw))
           /\ Upserted <=> an'.code = 200
           /\ ~Upserted =>
                 ai_analyses' = ai_analyses /\ next_analysis_id' = next_analysis_id
           /\ Upserted =>
                 \E row \in ai_analyses' :
                    /\ row.job_id = an.job_id /\ row.prompt_id = an.prompt_id
                    /\ row.id = an'.analysis_id
                    /\ row.model = an.model
                    /\ row.result =
                         json_dumps(_validate_analysis(_extract_json(an.raw).value).data)
                    /\ \A other \in ai_analyses' \ { row } : other \in ai_analyses
    ]_vars
\* Two requests were served: one was refused after a usable-looking reply
\* failed validation or extraction, and a row was stored by the other.
C20_Witness ==
  /\ an.pc = "done" /\ an.nrequests = 2
  /\ an.code = 422 /\ an.raw # <<>>
  /\ ai_analyses # {}

\* ---- C21 ----
\* As claimed: once a request has passed the input checks its request-log
\* entry is in the log before the provider is called, and once the provider
\* has answered the response-log entry is in the log before extraction and
\* validation, whether the request then ends in 200 or in 422.
AfterChecks == an.pc \in { "call", "parse" } \/ (an.pc = "done" /\ an.model # "")
AfterReply == an.pc = "parse" \/ (an.pc = "done" /\ an.raw # <<>>)
RequestEntry == LogEntry("request", an.job_id, an.prompt_id, an.model)
ResponseEntry == LogEntry("response", an.job_id, an.prompt_id, an.model)
WrittenEntriesPresent ==
  /\ (an.pc = "call" /\ "request" \in an.written) =>
        (llm_log # <<>> /\ llm_log[Len(llm_log)] = RequestEntry)
  /\ (AfterReply /\ "response" \in an.written) =>
        (llm_log # <<>> /\ llm_log[Len(llm_log)] = ResponseEntry)
  /\ (AfterReply /\ an.written = { "request", "response" }) =>
        (Len(llm_log) >= 2 /\ llm_log[Len(llm_log) - 1] = RequestEntry)
WrittenAtItsPlace ==
  /\ llm_log' # llm_log =>
        \/ an.pc \in { "idle", "done" } /\ an'.pc = "call"
        \/ an.pc = "call" /\ an'.pc = "parse"
  /\ (an.pc = "parse" /\ an'.pc = "done" /\ an'.code \in { 200, 422 }) =>
        (llm_log' = llm_log /\ an'.written = an.written)
Present(data, field) == DictHas(data.v, Key(field))
Field(data, field) == DictGet(data.v, Key(field))
KindOk(data, field, expected) ==
  /\ Present(data, field)
  /\ expected \in { "str", "list" } => Field(data, field).kind = expected
NonBlank(data, field, expected) ==
  (expected = "str" /\ Present(data, field) /\ Field(data, field).kind = "str")
     => strip(Field(data, field).v) # <<>>
ScoreOk(data) ==
  /\ Present(data, "match_score")
  /\ int(Field(data, "match_score")).ok
  /\ int(Field(data, "match_score")).value \in 1..10
RecommendationOk(data) ==
  /\ Present(data, "recommendation")
  /\ Field(data, "recommendation").kind = "str"
  /\ lower(strip(Field(data, "recommendation").v)) \in VALID_RECOMMENDATIONS
RequiredFields == { ANALYSIS_REQUIRED[i][1] : i \in DOMAIN ANALYSIS_REQUIRED }
\* The fields that are missing or invalid, blank strings counted or not.
BadFields(data, blank_is_bad) ==
  { f \in RequiredFields :
      \/ ~KindOk(data, f, ExpectedOf(f))
      \/ blank_is_bad /\ ~NonBlank(data, f, ExpectedOf(f))
      \/ f = "match_score" /\ ~ScoreOk(data)
      \/ f = "recommendation" /\ ~RecommendationOk(data) }
Named == { fn.errors[i][2] : i \in DOMAIN fn.errors }
SameValue(a, b) == a.kind = b.kind /\ (a.kind # "NoneType" => a.v = b.v)

SameOutcome(a, b) ==
  /\ a.ok = b.ok
  /\ a.ok => SameValue(a.value, b.value)
Whole == json_loads(strip_text(fn.text))
FirstBlock == Fenced(strip_text(fn.text))
Outermost == Braced(strip_text(fn.text))
Starts(text, word) == startswith(lower(text), word)
ViaGateway == startswith(fn.model, << "o", "w", "u", "i", ":" >>)
ToOpenAI ==
  \/ Starts(fn.model, << "g", "p", "t", "-" >>) \/ Starts(fn.model, << "o", "1" >>)
  \/ Starts(fn.model, << "o", "3" >>) \/ Starts(fn.model, << "c", "h", "a", "t", "g", "p", "t", "-" >>)
ToAnthropic == Starts(fn.model, << "c", "l", "a", "u", "d", "e", "-" >>)
ToGoogle == Starts(fn.model, << "g", "e", "m", "i", "n", "i", "-" >>)
C28_CountersOrdered ==
  /\ 0 <= completed_sources /\ completed_sources <= total_sources
  /\ 0 <= new_jobs_saved /\ new_jobs_saved <= jobs_found

\* ---- C29 ----
\* Every reply the provider returns ends the request in 200 with a row saved
\* or in 422 with no row saved; a reply that is JSON but no object is
\* answered with 422.
AnsweredReply == an.pc = "done" /\ an.raw # <<>>
C29_ReplyEndsIn200Or422 ==
  AnsweredReply =>
    \/ an.code = 200 /\ an.analysis_id # 0
    \/ an.code = 422 /\ an.analysis_id = 0

\* ---- C25 ----
FetchDone == fn.pc = "done"
Urls(jobs) == { jobs[i].url : i \in DOMAIN jobs }
FetchOf(adapter, keywords, salary_min, max_results, payload) ==
  CASE adapter = "Adzuna" ->
         AdzunaSource_fetch_jobs(keywords, salary_min, max_results, payload)
    [] adapter = "Lever" ->
         LeverSource_fetch_jobs(keywords, salary_min, max_results, payload)
    [] adapter = "JobSpy" ->
         JobSpySource_fetch_jobs(keywords, salary_min, max_results, payload)
    [] OTHER ->
         RemotiveSource_fetch_jobs(keywords, salary_min, max_results, payload)
UnknownSalaryKept ==
  LET unfiltered == FetchOf(fn.adapter, fn.keywords, NoAmount, fn.max_results,
                            fn.payload).jobs
  IN  \A i \in DOMAIN unfiltered :
        unfiltered[i].salary_max = NoAmount
          => unfiltered[i].url \in Urls(fn.out.jobs)

\* C25: whatever the adapter and the provider's payload, every job that
\* fetch_jobs returns for salary_min = S has an unknown salary_max or one
\* of at least S, and a job of unknown salary returned without a threshold
\* is returned with it too.
C25_SalaryMinHonoured ==
  (FetchDone /\ fn.out.raised = "" /\ Amount(fn.salary_min)) =>
     /\ \A i \in DOMAIN fn.out.jobs :
          \/ fn.out.jobs[i].salary_max = NoAmount
          \/ fn.out.jobs[i].salary_max >= fn.salary_min
     /\ UnknownSalaryKept

\* ---- C26 ----
RECURSIVE BatchTotal(_)
BatchTotal(batches) ==
  IF batches = <<>> THEN 0 ELSE Len(Head(batches)) + BatchTotal(Tail(batches))

\* C26: whatever the adapter and however many keywords or boards it
\* searches, fetch_jobs called with max_results = N returns at most N jobs
\* and delivers at most N through on_batch.
C26_MaxResultsCapsTotal ==
  FetchDone =>
     /\ Len(fn.out.jobs) <= fn.max_results
     /\ BatchTotal(fn.out.batches) <= fn.max_results

\* ---- C27 ----
RECURSIVE AllBlank(_)
AllBlank(texts) ==
  texts = <<>> \/ (strip(Head(texts)) = <<>> /\ AllBlank(Tail(texts)))
NoKeywordSent ==
  /\ fn.keywords_raw.kind = "list"
  /\ AllBlank(fn.keywords_raw.v)

\* C27: when the keyword list of a search is empty or holds blank texts
\* only, every adapter searches with the keyword list ["job"], never with
\* an empty or blank list or another default term.
C27_BlankKeywordsBecomeJob ==
  (FetchDone /\ NoKeywordSent) => fn.terms = DefaultKeywords

\* ---- C30 ----
RemotivePasses(item) ==
  /\ ~SalaryTooLow(fn.salary_min, _parse_salary_string(item.salary)[2])
  /\ _matches_keywords(item.words, fn.keywords)
RemotivePassing(listings) ==
  { i \in DOMAIN listings : RemotivePasses(listings[i]) }

\* C30: for each keyword Remotive examines every listing returned: while
\* no more than max_results listings of a keyword pass the salary and
\* keyword filters each of them is in the result, every job of the result
\* is a listing that passes, and no call raises, an empty listing included.
C30_RemotiveExaminesEveryListing ==
  (FetchDone /\ fn.adapter = "Remotive") =>
     /\ fn.out.raised = ""
     /\ \A t \in DOMAIN fn.terms :
          LET listings == Answer(fn.payload, Joined(fn.terms[t])) IN
            Cardinality(RemotivePassing(listings)) <= fn.max_results
              => \A i \in RemotivePassing(listings) :
                    listings[i].url \in Urls(fn.out.jobs)
     /\ \A j \in DOMAIN fn.out.jobs :
          \E t \in DOMAIN fn.terms :
            LET listings == Answer(fn.payload, Joined(fn.terms[t])) IN
              \E i \in RemotivePassing(listings) :
                 listings[i].url = fn.out.jobs[j].url

====
